---- MODULE Spec2Model ----
(***************************************************************************)
(* A model of the Figma-to-code compiler (MCPCompiler in mcp-compiler.js,  *)
(* CompilerEngine in src/compiler-engine.js).                              *)
(*                                                                         *)
(* Numbers with a fractional part are fixed-point integers: a length is    *)
(* held in hundredths of a pixel on input and in tenths of a pixel once    *)
(* round() has been applied.  A CSS declaration 'prop: value' is the       *)
(* record [prop, kw, n, ref]: kw is the keyword or unit of the value, n    *)
(* its number and ref the custom property of a var(ref, value).            *)
(***************************************************************************)
EXTENDS Integers, Sequences, FiniteSets, TLC

VARIABLES
  figmaData,             \* start(): let figmaData  (the loaded design, or NoData)
  currentUrl,            \* start(): let currentUrl
  fileKey,               \* start(): let fileKey
  nodeId,                \* start(): let nodeId
  imageUrls,             \* this.imageUrls
  svgContent,            \* this.svgContent
  videoUrls,             \* this.videoUrls
  gifUrls,               \* this.gifUrls
  variableDefs,          \* this.variableDefs
  codeConnectMap,        \* this.codeConnectMap
  currentComponentTree,  \* this.currentComponentTree
  envToken,              \* process.env.FIGMA_ACCESS_TOKEN
  reqs,                  \* the HTTP requests in flight, each at its await
  fetchSeq,              \* number of fetchFigmaData calls started so far
  owner,                 \* per cache: the fetchFigmaData call that last reset it
  result,                \* what the last operation returned
  rendered,              \* every value translateNodeToHTML(root) has returned
  client,                \* this.mcpClient: the FigmaMCPClient and its calls
  tokens                 \* the access tokens the users of the server send

vars == <<figmaData, currentUrl, fileKey, nodeId, imageUrls, svgContent,
          videoUrls, gifUrls, variableDefs, codeConnectMap,
          currentComponentTree, envToken, reqs, fetchSeq, owner, result,
          rendered, client, tokens>>

(***************************************************************************)
(* Bounds of the model.                                                    *)
(***************************************************************************)
MaxEffects == 3

MaxChildren == 2
MaxRequests == 2
MaxFetches == 2

(***************************************************************************)
(* Partial maps (JavaScript objects used as caches).                       *)
(***************************************************************************)
EmptyMap == [k \in {} |-> ""]

Has(m, k) == k \in DOMAIN m

Put(m, k, v) == [x \in (DOMAIN m) \cup {k} |-> IF x = k THEN v ELSE m[x]]

SeqToSet(s) == {s[i] : i \in 1..Len(s)}

(***************************************************************************)
(* Node model.  Every node carries every field; "" (or present = FALSE,    *)
(* or an empty map) stands for a field the Figma document leaves out.      *)
(***************************************************************************)
NoBBox == [present |-> FALSE, width |-> 0, height |-> 0]

BBox(w, h) == [present |-> TRUE, width |-> w, height |-> h]

NoStyle == [present |-> FALSE, fontFamily |-> "", fontSize |-> 0,
            fontWeight |-> 0, textAutoResize |-> "",
            lineHeightPercentFontSize |-> 0, lineHeightPercent |-> 0,
            lineHeightPx |-> 0]

NoName == [label |-> "", host |-> "", ext |-> ""]

Name(label) == [label |-> label, host |-> "", ext |-> ""]

Node(id, type) ==
  [id |-> id, name |-> Name("Layer"), type |-> type, visible |-> TRUE,
   bbox |-> BBox(10000, 5000),
   layoutSizingHorizontal |-> "", layoutSizingVertical |-> "",
   layoutMode |-> "", primaryAxisAlignItems |-> "",
   fills |-> <<>>, backgroundColor |-> "", strokes |-> <<>>, strokeWeight |-> 0,
   effects |-> <<>>,
   style |-> NoStyle, textAutoResize |-> "",
   boundVariables |-> EmptyMap, characters |-> "",
   componentId |-> "", componentProperties |-> <<>>, children |-> <<>>]

\* A paint (fill or stroke).  gradientHandlePositions is a sequence of <<x, y>>
\* points (<<>> when the field is missing); hasStops tells whether the
\* gradientStops field is there.
Fill(type) ==
  [type |-> type, visible |-> TRUE, color |-> "#112233",
   gradientHandlePositions |-> <<>>, hasStops |-> FALSE, gradientStops |-> <<>>]

VectorTypes == {"VECTOR", "BOOLEAN_OPERATION", "STAR", "REGULAR_POLYGON"}

(***************************************************************************)
(* Asset lookups (mcp-compiler.js, second revision).  `x || null` is ""    *)
(* here: a URL is a non-empty string.                                      *)
(***************************************************************************)
getImageUrl_onceTreeBuilt(id) ==
  IF currentComponentTree.present /\ Has(imageUrls, id) THEN imageUrls[id]
  ELSE ""

getImageUrl(id) == IF Has(imageUrls, id) THEN imageUrls[id] ELSE ""

getSvgContent(id) == IF Has(svgContent, id) THEN svgContent[id] ELSE ""

getVideoUrl(id) == IF Has(videoUrls, id) THEN videoUrls[id] ELSE ""

getGifUrl(id) == IF Has(gifUrls, id) THEN gifUrls[id] ELSE ""

hasFillOfType(node, type) ==
  \E i \in 1..Len(node.fills) :
    node.fills[i].type = type /\ node.fills[i].visible

hasVideoFill(node) == hasFillOfType(node, "VIDEO") \/ Has(videoUrls, node.id)

hasGifFill(node) == Has(gifUrls, node.id)

hasImageFill(node) == hasFillOfType(node, "IMAGE")

DirectLottieHosts == {"assets.lottiefiles.com", "assets1.lottiefiles.com",
                      "lottie.host"}

\* The URL the name carries is [host, ext]; "" when the name carries none.
\* The pattern of the direct URLs ignores case, endsWith does not.
getLottieUrl(node) ==
  IF node.name.host \in DirectLottieHosts
     /\ node.name.ext \in {"json", "lottie", "JSON"}
  THEN [host |-> node.name.host, ext |-> node.name.ext]
  ELSE IF node.name.host = "app.lottiefiles.com"
       THEN [host |-> node.name.host, ext |-> node.name.ext]
       ELSE [host |-> "", ext |-> ""]

hasLottieFill(node) == getLottieUrl(node).host # ""

isDirectLottieUrl(url) == url.host # "" /\ url.ext \in {"json", "lottie"}

\* name.toLowerCase().replace(/\s+/g, '_').replace(/[^a-z0-9_]/g, ''), over
\* the labels of the model.
getClassName(name) ==
  CASE name.label = "" -> "unnamed"
    [] name.label = "Layer" -> "layer"
    [] name.label = "Hero Box" -> "hero_box"
    [] name.label = "Heading" -> "heading"
    [] name.label = "Foo Widget" -> "foo_widget"
    [] name.label = "Body" -> "body"
    [] name.label = "Promo gif" -> "promo_gif"
    [] name.label = "Title" -> "title"
    [] name.label = "Intro video" -> "intro_video"
    [] OTHER -> "layer"

(***************************************************************************)
(* Output model: an element of the HTML string.  The empty string that a   *)
(* hidden node yields is Empty.                                            *)
(***************************************************************************)
D(prop, kw, n) == [prop |-> prop, kw |-> kw, n |-> n, ref |-> ""]

DV(prop, ref, kw, n) == [prop |-> prop, kw |-> kw, n |-> n, ref |-> ref]

NoUrl == [host |-> "", ext |-> ""]

\* An asset URL of the caches, opaque to the compiler.
Url(s) == [host |-> s, ext |-> ""]

Empty == [kind |-> "empty", tag |-> "", id |-> "", cls |-> "", variant |-> "",
          depth |-> 0, src |-> NoUrl, style |-> <<>>, text |-> <<>>,
          props |-> <<>>, children |-> <<>>]

\* One element: `variant` is the second class of a media container, `src`
\* the src (or data-lottie-app-url) attribute, `text` its own text runs.
El(tag, node, variant, depth, src, style, text, children) ==
  [kind |-> "el", tag |-> tag, id |-> node.id, cls |-> getClassName(node.name),
   variant |-> variant, depth |-> depth, src |-> src, style |-> style,
   text |-> IF text = "" THEN <<>> ELSE <<text>>, props |-> <<>>,
   children |-> children]

\* Math.round(value * 10) / 10: hundredths in, tenths out, halves upwards.
round(value) == (value + 5) \div 10

orFixed(sizing) == IF sizing = "" THEN "FIXED" ELSE sizing

(***************************************************************************)
(* Per-axis sizing of the style resolvers.                                 *)
(***************************************************************************)
frameWidth(node) ==
  LET sizingH == orFixed(node.layoutSizingHorizontal) IN
  IF sizingH = "FILL" THEN <<D("flex", "1", 0), D("align-self", "stretch", 0)>>
  ELSE IF sizingH = "HUG" THEN <<>>
  ELSE IF node.bbox.present THEN <<D("width", "px", round(node.bbox.width))>>
  ELSE <<>>

frameHeight(node) ==
  LET sizingV == orFixed(node.layoutSizingVertical) IN
  IF sizingV = "FILL" THEN <<D("flex-grow", "1", 0)>>
  ELSE IF sizingV = "HUG" THEN <<>>
  ELSE IF node.bbox.present THEN <<D("height", "px", round(node.bbox.height))>>
  ELSE <<>>

videoWidth_both(node) ==
  LET sizingH == orFixed(node.layoutSizingHorizontal) IN
  (IF sizingH = "FILL" THEN <<D("flex", "1", 0), D("width", "100%", 0)>> ELSE <<>>)
  \o (IF sizingH # "HUG" /\ node.bbox.present
      THEN <<D("width", "px", round(node.bbox.width))>> ELSE <<>>)

videoWidth(node) ==
  LET sizingH == orFixed(node.layoutSizingHorizontal) IN
  IF sizingH = "FILL" THEN <<D("flex", "1", 0), D("width", "100%", 0)>>
  ELSE IF sizingH = "HUG" THEN <<>>
  ELSE IF node.bbox.present THEN <<D("width", "px", round(node.bbox.width))>>
  ELSE <<>>

videoHeight(node) ==
  LET sizingV == orFixed(node.layoutSizingVertical) IN
  IF sizingV = "FILL" THEN <<D("flex-grow", "1", 0), D("height", "100%", 0)>>
  ELSE IF sizingV = "HUG" THEN <<>>
  ELSE IF node.bbox.present THEN <<D("height", "px", round(node.bbox.height))>>
  ELSE <<>>

\* node.style?.textAutoResize || node.textAutoResize
textAutoResizeOf(node) ==
  IF node.style.present /\ node.style.textAutoResize # ""
  THEN node.style.textAutoResize ELSE node.textAutoResize

textWidth(node) ==
  IF node.layoutSizingHorizontal = "FILL"
  THEN <<D("flex", "1", 0), D("align-self", "stretch", 0)>>
  ELSE IF node.layoutSizingHorizontal = "HUG"
          \/ textAutoResizeOf(node) = "WIDTH_AND_HEIGHT" THEN <<>>
  ELSE IF node.bbox.present THEN <<D("width", "px", round(node.bbox.width))>>
  ELSE <<>>

textHeight(node) ==
  IF node.layoutSizingVertical = "FILL" THEN <<D("flex-grow", "1", 0)>>
  ELSE IF node.layoutSizingVertical = "HUG"
          \/ textAutoResizeOf(node) \in {"WIDTH_AND_HEIGHT", "HEIGHT"} THEN <<>>
  ELSE IF node.bbox.present THEN <<D("height", "px", round(node.bbox.height))>>
  ELSE <<>>

\* The <img> of a RECTANGLE with an image fill: no HUG branch.
imgWidth(node) ==
  IF orFixed(node.layoutSizingHorizontal) = "FILL" THEN <<D("width", "100%", 0)>>
  ELSE IF node.bbox.present THEN <<D("width", "px", round(node.bbox.width))>>
  ELSE <<>>

imgHeight(node) ==
  IF orFixed(node.layoutSizingVertical) = "FILL" THEN <<D("height", "100%", 0)>>
  ELSE IF node.bbox.present THEN <<D("height", "px", round(node.bbox.height))>>
  ELSE <<>>

\* translateEllipseStyle, translateLineStyle, translateVectorStyle: the
\* bounding box whatever the sizing mode.
bboxSize(node) ==
  IF node.bbox.present
  THEN <<D("width", "px", round(node.bbox.width)),
         D("height", "px", round(node.bbox.height))>>
  ELSE <<>>

\* CompilerEngine.translateAutoLayoutToCSS, size handling.
engineSize(node) ==
  (IF node.layoutSizingHorizontal = "FILL" THEN <<D("flex", "1", 0)>>
   ELSE IF node.layoutSizingHorizontal = "HUG" THEN <<D("width", "auto", 0)>>
   ELSE IF node.bbox.present THEN <<D("width", "px", round(node.bbox.width))>>
   ELSE <<>>)
  \o
  (IF node.layoutSizingVertical = "FILL" THEN <<D("align-self", "stretch", 0)>>
   ELSE IF node.layoutSizingVertical = "HUG" THEN <<D("height", "auto", 0)>>
   ELSE IF node.bbox.present THEN <<D("height", "px", round(node.bbox.height))>>
   ELSE <<>>)

(***************************************************************************)
(* Design tokens.  this.variableDefs is the sequence of its entries in     *)
(* insertion order (the order of Object.entries), each [name, cssVar].     *)
(***************************************************************************)
Value(kw, n) == [ref |-> "", kw |-> kw, n |-> n]

Decl(prop, value) ==
  [prop |-> prop, kw |-> value.kw, n |-> value.n, ref |-> value.ref]

VarNames == {"color/neutral/text-default", "color/brand", "font-family",
             "font-size/10", "font-size/4", "spacing/2"}

\* '--' + varName.replace(/\//g, '-').replace(/\s+/g, '-').toLowerCase()
cssVarName(varName) ==
  CASE varName = "color/neutral/text-default" -> "--color-neutral-text-default"
    [] varName = "color/brand" -> "--color-brand"
    [] varName = "font-family" -> "--font-family"
    [] varName = "font-size/10" -> "--font-size-10"
    [] varName = "font-size/4" -> "--font-size-4"
    [] varName = "spacing/2" -> "--spacing-2"
    [] OTHER -> "--unknown"

\* name.includes(part), for the three parts getVariableCSSFromId asks about.
nameIncludes(name, part) ==
  CASE part = "color" -> name \in {"color/neutral/text-default", "color/brand"}
    [] part = "font-family" -> name = "font-family"
    [] part = "font-size" -> name \in {"font-size/10", "font-size/4"}
    [] OTHER -> FALSE

defIndex(name) == {i \in 1..Len(variableDefs) : variableDefs[i].name = name}

propertyToVarMap(property) ==
  CASE property = "fills" -> "color/neutral/text-default"
    [] property = "fontFamily" -> "font-family"
    [] property = "fontSize" -> "font-size/10"
    [] property = "fontStyle" -> "font-weight/bold"
    [] OTHER -> ""

SetMin(S) == CHOOSE x \in S : \A y \in S : x <= y

getVariableCSSFromId(varId, property, fallbackValue) ==
  LET varName == propertyToVarMap(property)
      byType == {i \in 1..Len(variableDefs) :
                   /\ variableDefs[i].cssVar # ""
                   /\ \/ property = "fills" /\ nameIncludes(variableDefs[i].name, "color")
                      \/ property = "fontFamily"
                           /\ nameIncludes(variableDefs[i].name, "font-family")
                      \/ property = "fontSize"
                           /\ nameIncludes(variableDefs[i].name, "font-size")}
  IN IF varName # "" /\ defIndex(varName) # {}
     THEN [fallbackValue EXCEPT
             !.ref = variableDefs[SetMin(defIndex(varName))].cssVar]
     ELSE IF byType # {}
          THEN [fallbackValue EXCEPT !.ref = variableDefs[SetMin(byType)].cssVar]
          ELSE fallbackValue

\* A binding is [isArray, ids]: ids[1] is the id of a scalar binding ("" when
\* the binding carries no id).
getBoundVariableValue(node, property, fallbackValue) ==
  IF ~Has(node.boundVariables, property) THEN fallbackValue
  ELSE LET binding == node.boundVariables[property] IN
       IF binding.isArray
       THEN IF Len(binding.ids) > 0 /\ binding.ids[1] # ""
            THEN getVariableCSSFromId(binding.ids[1], property, fallbackValue)
            ELSE fallbackValue
       ELSE IF binding.ids[1] # ""
            THEN getVariableCSSFromId(binding.ids[1], property, fallbackValue)
            ELSE fallbackValue

(***************************************************************************)
(* Style resolvers.  Of a style list the model keeps the declarations of   *)
(* sizing, background, flex layout, font and colour.                       *)
(***************************************************************************)
\* Math.round of a number held in hundredths.
mathRound(value) == (value + 50) \div 100

\* Math.atan2(dy, dx) * 180 / Math.PI in hundredths of a degree, for the
\* handle vectors of the model.
atan2Deg(dy, dx) ==
  CASE <<dx, dy>> = <<1, 0>> -> 0
    [] <<dx, dy>> = <<0, 1>> -> 9000
    [] <<dx, dy>> = <<-1, 0>> -> 18000
    [] <<dx, dy>> = <<0, -1>> -> -9000
    [] <<dx, dy>> = <<1, 1>> -> 4500
    [] <<dx, dy>> = <<-1, 1>> -> 13500
    [] <<dx, dy>> = <<-1, -1>> -> -13500
    [] <<dx, dy>> = <<1, -1>> -> -4500
    [] <<dx, dy>> = <<2, 1>> -> 2657
    [] <<dx, dy>> = <<1, 2>> -> 6343
    [] <<dx, dy>> = <<-2, 1>> -> 15343
    [] <<dx, dy>> = <<1, -2>> -> -6343
    [] OTHER -> 0

mathAngle(start, end) == atan2Deg(end[2] - start[2], end[1] - start[1])

linearAngle_unturned(start, end) == mathRound(mathAngle(start, end))

\* Math.round(90 + mathAngle)
linearAngle(start, end) == mathRound(9000 + mathAngle(start, end))

NoGradient == [ref |-> "", kw |-> "", n |-> 0]

\* A gradient string: kw is its function, followed by "(undefined)" when the
\* stops are the text 'undefined' of a missing gradientStops, n its angle.
gradientOf(fill, fn, angle) ==
  LET undefinedStops ==
        CASE fn = "linear-gradient" -> "linear-gradient(undefined)"
          [] fn = "radial-gradient" -> "radial-gradient(undefined)"
          [] OTHER -> "conic-gradient(undefined)"
  IN [ref |-> "", kw |-> IF fill.hasStops THEN fn ELSE undefinedStops, n |-> angle]

applyGradient(fill) ==
  IF Len(fill.gradientHandlePositions) < 2 THEN NoGradient
  ELSE LET start == fill.gradientHandlePositions[1]
           end == fill.gradientHandlePositions[2]
       IN CASE fill.type = "GRADIENT_LINEAR" ->
                 gradientOf(fill, "linear-gradient", linearAngle(start, end))
            [] fill.type = "GRADIENT_RADIAL" -> gradientOf(fill, "radial-gradient", 0)
            [] fill.type = "GRADIENT_ANGULAR" ->
                 gradientOf(fill, "conic-gradient",
                            mathRound(mathAngle(start, end) + 9000))
            [] fill.type = "GRADIENT_DIAMOND" ->
                 IF fill.hasStops /\ Len(fill.gradientStops) > 0
                 THEN [ref |-> "", kw |-> "diamond-gradient", n |-> 0]
                 ELSE NoGradient
            [] OTHER -> NoGradient

GradientTypes == {"GRADIENT_LINEAR", "GRADIENT_RADIAL", "GRADIENT_ANGULAR",
                  "GRADIENT_DIAMOND"}

firstFill(node, solidOnly) ==
  LET hits == {i \in 1..Len(node.fills) :
                 /\ node.fills[i].visible
                 /\ solidOnly => node.fills[i].type = "SOLID"}
  IN IF hits = {} THEN 0 ELSE SetMin(hits)

applyFillStyles(node) ==
  LET i == firstFill(node, FALSE)
  IN IF i = 0 THEN <<>>
     ELSE LET fill == node.fills[i] IN
          IF fill.type = "SOLID" /\ fill.color # ""
          THEN <<D("background-color", fill.color, 0)>>
          ELSE IF fill.type = "IMAGE"
          THEN IF getImageUrl(node.id) # ""
               THEN <<D("background-image", getImageUrl(node.id), 0),
                      D("background-size", "cover", 0),
                      D("background-position", "center", 0)>>
               ELSE <<>>
          ELSE IF fill.type \in GradientTypes /\ applyGradient(fill) # NoGradient
          THEN <<Decl("background", applyGradient(fill))>>
          ELSE <<>>

applyStrokeStyles(node) ==
  LET shown == {i \in 1..Len(node.strokes) : node.strokes[i].visible}
  IN IF node.strokeWeight # 0 /\ shown # {}
        /\ node.strokes[SetMin(shown)].type = "SOLID"
        /\ node.strokes[SetMin(shown)].color # ""
     THEN <<D("border", node.strokes[SetMin(shown)].color, round(node.strokeWeight))>>
     ELSE <<>>

\* if (!node.fills?.length && node.backgroundColor)
backgroundColorFallback(node) ==
  IF Len(node.fills) = 0 /\ node.backgroundColor # ""
  THEN <<D("background-color", node.backgroundColor, 0)>> ELSE <<>>

alignMap(align) ==
  CASE align = "MIN" -> "flex-start"
    [] align = "CENTER" -> "center"
    [] align = "MAX" -> "flex-end"
    [] align = "SPACE_BETWEEN" -> "space-between"
    [] OTHER -> "flex-start"

justifyContent_noTieBreak(node) ==
  IF node.primaryAxisAlignItems = "" THEN <<>>
  ELSE <<D("justify-content", alignMap(node.primaryAxisAlignItems), 0)>>

justifyContent(node) ==
  IF node.primaryAxisAlignItems = "" THEN <<>>
  ELSE LET value == IF node.primaryAxisAlignItems = "SPACE_BETWEEN"
                       /\ Len(node.children) = 1
                    THEN "CENTER" ELSE node.primaryAxisAlignItems
       IN <<D("justify-content", alignMap(value), 0)>>

flexLayout_emittedChildren(node) ==
  LET emitted(child) == child.visible
  IN IF node.layoutMode = "" THEN <<>>
     ELSE <<D("display", "flex", 0),
            D("flex-direction",
              IF node.layoutMode = "VERTICAL" THEN "column" ELSE "row", 0)>>
          \o justifyContent([node EXCEPT
                               !.children = SelectSeq(node.children, emitted)])

flexLayout(node) ==
  IF node.layoutMode = "" THEN <<>>
  ELSE <<D("display", "flex", 0),
         D("flex-direction",
           IF node.layoutMode = "VERTICAL" THEN "column" ELSE "row", 0)>>
       \o justifyContent(node)

\* An effect is [type, visible].  MCPCompiler.applyEffect: the declaration of
\* one effect, prop = "" standing for the empty string.
applyEffect(effect) ==
  CASE effect.type = "DROP_SHADOW" -> D("box-shadow", "", 0)
    [] effect.type = "INNER_SHADOW" -> D("box-shadow", "inset", 0)
    [] effect.type = "LAYER_BLUR" -> D("filter", "blur", 0)
    [] OTHER -> D("", "", 0)

\* CompilerEngine.applyEffect: null (prop = "") for a hidden effect.
engineApplyEffect(effect) ==
  IF ~effect.visible THEN D("", "", 0)
  ELSE CASE effect.type = "DROP_SHADOW" -> D("box-shadow", "", 0)
         [] effect.type = "INNER_SHADOW" -> D("box-shadow", "inset", 0)
         [] effect.type = "LAYER_BLUR" -> D("filter", "blur", 0)
         [] effect.type = "BACKGROUND_BLUR" -> D("backdrop-filter", "blur", 0)
         [] OTHER -> D("", "", 0)

\* node.effects.map(e => this.applyEffect(e)).filter(Boolean)
effectCSS(node, engine) ==
  LET kept(decl) == decl.prop # ""
  IN SelectSeq([i \in 1..Len(node.effects) |->
                  IF engine THEN engineApplyEffect(node.effects[i])
                  ELSE applyEffect(node.effects[i])], kept)

translateAutoLayoutToCSS(node) ==
  frameWidth(node) \o frameHeight(node) \o applyFillStyles(node)
    \o backgroundColorFallback(node) \o flexLayout(node)
    \o effectCSS(node, FALSE)

translateRectangleStyle(node) ==
  frameWidth(node) \o frameHeight(node) \o applyFillStyles(node)
    \o applyStrokeStyles(node) \o effectCSS(node, FALSE)

translateVideoStyle(node) ==
  videoWidth(node) \o videoHeight(node) \o <<D("object-fit", "cover", 0)>>

translateEllipseStyle(node) ==
  bboxSize(node) \o <<D("border-radius", "50%", 0)>> \o applyFillStyles(node)
    \o applyStrokeStyles(node)

translateLineStyle(node) == bboxSize(node)

translateVectorStyle(node) == bboxSize(node) \o <<D("object-fit", "contain", 0)>>

\* translateTextStyle, "Line height": percentages as they are, the pixel value
\* (hundredths) printed as it is.
lineHeight(style) ==
  IF ~style.present THEN <<>>
  ELSE IF style.lineHeightPercentFontSize # 0
  THEN <<D("line-height", "%", style.lineHeightPercentFontSize)>>
  ELSE IF style.lineHeightPercent # 0
  THEN <<D("line-height", "%", style.lineHeightPercent)>>
  ELSE IF style.lineHeightPx # 0
  THEN <<D("line-height", "px", style.lineHeightPx)>>
  ELSE <<>>

\* CompilerEngine.translateTextStyle, "Line height".
engineLineHeight(style) ==
  IF ~style.present THEN <<>>
  ELSE IF style.lineHeightPercentFontSize # 0
  THEN <<D("line-height", "%", style.lineHeightPercentFontSize)>>
  ELSE IF style.lineHeightPx # 0
  THEN <<D("line-height", "px", round(style.lineHeightPx))>>
  ELSE <<>>

translateTextStyle(node) ==
  LET i == firstFill(node, TRUE)
  IN <<D("margin", "0", 0)>> \o textWidth(node) \o textHeight(node)
     \o (IF node.style.present /\ node.style.fontFamily # ""
         THEN <<Decl("font-family",
                     getBoundVariableValue(node, "fontFamily",
                                           Value(node.style.fontFamily, 0)))>>
         ELSE <<>>)
     \o (IF node.style.present /\ node.style.fontSize # 0
         THEN <<Decl("font-size",
                     getBoundVariableValue(node, "fontSize",
                                           Value("px", round(node.style.fontSize))))>>
         ELSE <<>>)
     \o (IF node.style.present /\ node.style.fontWeight # 0
         THEN <<D("font-weight", "", node.style.fontWeight)>>
         ELSE <<>>)
     \o lineHeight(node.style)
     \o (IF i # 0 /\ node.fills[i].color # ""
         THEN <<Decl("color",
                     getBoundVariableValue(node, "fills",
                                           Value(node.fills[i].color, 0)))>>
         ELSE <<>>)

\* Font sizes are in hundredths of a pixel.
getTextTag(node) ==
  IF ~node.style.present THEN "p"
  ELSE LET fontSize == IF node.style.fontSize = 0 THEN 1600 ELSE node.style.fontSize
           fontWeight == IF node.style.fontWeight = 0 THEN 400
                         ELSE node.style.fontWeight
       IN IF fontSize >= 4800 \/ (fontSize >= 3200 /\ fontWeight >= 600) THEN "h1"
          ELSE IF fontSize >= 3200 \/ (fontSize >= 2400 /\ fontWeight >= 600)
               THEN "h2"
          ELSE IF fontSize >= 2400 \/ (fontSize >= 1800 /\ fontWeight >= 600)
               THEN "h3"
          ELSE "p"

\* The width and height attributes and the style of the inline <svg>.
processSvg(node) ==
  LET sizingH == orFixed(node.layoutSizingHorizontal)
      sizingV == orFixed(node.layoutSizingVertical)
  IN (IF sizingH = "FILL" THEN <<D("width", "100%", 0), D("flex", "1", 0)>>
      ELSE IF sizingH = "HUG" THEN <<>>
      ELSE IF node.bbox.present THEN <<D("width", "attr", round(node.bbox.width))>>
      ELSE <<>>)
     \o
     (IF sizingV = "FILL" THEN <<D("height", "100%", 0), D("flex-grow", "1", 0)>>
      ELSE IF sizingV = "HUG" THEN <<>>
      ELSE IF node.bbox.present THEN <<D("height", "attr", round(node.bbox.height))>>
      ELSE <<>>)

(***************************************************************************)
(* The tree walker (mcp-compiler.js, second revision).                     *)
(***************************************************************************)
isHidden_never(node) == FALSE

\* node.visible === false
isHidden(node) == node.visible = FALSE

\* The container style of an app.lottiefiles.com placeholder.
placeholderStyle(node) ==
  translateVideoStyle(node)
    \o <<D("background", "linear-gradient", 135), D("display", "flex", 0),
         D("align-items", "center", 0), D("justify-content", "center", 0)>>

lottieElement(node, depth) ==
  IF isDirectLottieUrl(getLottieUrl(node))
  THEN El("dotlottie-wc", node, "", depth, getLottieUrl(node),
          translateVideoStyle(node), "", <<>>)
  ELSE El("div", node, "lottie-placeholder", depth, getLottieUrl(node),
          placeholderStyle(node), "", <<>>)

\* Container of a gif or video poster: the URL goes into background-image
\* as it is, also when the cache holds none.
posterElement(node, depth, variant, url) ==
  El("div", node, variant, depth, NoUrl,
     translateVideoStyle(node)
       \o <<D("background-image", url, 0), D("background-size", "cover", 0),
            D("background-position", "center", 0), D("position", "relative", 0)>>,
     "", <<>>)

rectangleImg(node, depth) ==
  El("img", node, "", depth, Url(getImageUrl(node.id)),
     imgWidth(node) \o imgHeight(node)
       \o <<D("object-fit", "cover", 0), D("display", "block", 0)>>, "", <<>>)

instanceImg(node, depth) ==
  El("img", node, "", depth, Url(getImageUrl(node.id)),
     (IF orFixed(node.layoutSizingHorizontal) = "FILL"
      THEN <<D("width", "100%", 0)>>
      ELSE IF node.bbox.present
           THEN <<D("width", "px", round(node.bbox.width)),
                  D("max-width", "100%", 0)>>
           ELSE <<>>)
     \o (IF orFixed(node.layoutSizingVertical) = "FILL"
         THEN <<D("height", "100%", 0)>> ELSE <<D("height", "auto", 0)>>)
     \o <<D("object-fit", "cover", 0), D("display", "block", 0)>>, "", <<>>)

defaultElement_leaf(node, depth, defaultChildren) ==
  El("div", node, "", depth, NoUrl, <<>>, "", <<>>)

\* The default case: a div without a style around the translated children.
defaultElement(node, depth, defaultChildren) ==
  El("div", node, "", depth, NoUrl, <<>>, "", defaultChildren)

\* The flag translateNodeToHTML hands to the children of the node: FRAME and
\* INSTANCE/COMPONENT pass nodeHasAutoLayout, GROUP and the default case pass
\* on the flag the node received.
childFlag(node, parentHasAutoLayout) ==
  IF node.type \in {"FRAME", "INSTANCE", "COMPONENT"}
  THEN node.layoutMode # ""
  ELSE parentHasAutoLayout

RECURSIVE translateNodeToHTML(_, _, _)
translateNodeToHTML(node, depth, parentHasAutoLayout) ==
  IF isHidden(node) THEN Empty
  ELSE
  LET walk(flag) == [i \in 1..Len(node.children) |->
                       translateNodeToHTML(node.children[i], depth + 1, flag)]
  IN
  CASE node.type = "FRAME" ->
         IF hasLottieFill(node) THEN lottieElement(node, depth)
         ELSE El("div", node, "", depth, NoUrl, translateAutoLayoutToCSS(node),
                 "", walk(childFlag(node, parentHasAutoLayout)))
    [] node.type = "RECTANGLE" ->
         IF hasLottieFill(node) THEN lottieElement(node, depth)
         ELSE IF hasGifFill(node)
         THEN posterElement(node, depth, "gif-container", getGifUrl(node.id))
         ELSE IF hasVideoFill(node)
         THEN posterElement(node, depth, "video-container", getVideoUrl(node.id))
         ELSE IF hasImageFill(node) /\ getImageUrl(node.id) # ""
         THEN rectangleImg(node, depth)
         ELSE El("div", node, "", depth, NoUrl, translateRectangleStyle(node),
                 "", <<>>)
    [] node.type = "TEXT" ->
         El(getTextTag(node), node, "", depth, NoUrl, translateTextStyle(node),
            node.characters, <<>>)
    [] node.type = "GROUP" ->
         El("div", node, "", depth, NoUrl, <<>>, "",
            walk(childFlag(node, parentHasAutoLayout)))
    [] node.type = "ELLIPSE" ->
         El("div", node, "", depth, NoUrl, translateEllipseStyle(node), "", <<>>)
    [] node.type = "LINE" ->
         El("div", node, "", depth, NoUrl, translateLineStyle(node), "", <<>>)
    [] node.type \in VectorTypes ->
         IF getSvgContent(node.id) # ""
         THEN El("svg", node, "", depth, NoUrl, processSvg(node), "", <<>>)
         ELSE IF getImageUrl(node.id) # ""
         THEN El("img", node, "", depth, Url(getImageUrl(node.id)),
                 translateVectorStyle(node), "", <<>>)
         ELSE El("div", node, "", depth, NoUrl, translateVectorStyle(node),
                 "", <<>>)
    [] node.type \in {"INSTANCE", "COMPONENT"} ->
         IF hasImageFill(node) /\ getImageUrl(node.id) # ""
         THEN instanceImg(node, depth)
         ELSE IF Len(node.children) > 0
         THEN El("div", node, "", depth, NoUrl, translateAutoLayoutToCSS(node),
                 "", walk(childFlag(node, parentHasAutoLayout)))
         ELSE IF getImageUrl(node.id) # ""
         THEN El("img", node, "", depth, Url(getImageUrl(node.id)),
                 translateAutoLayoutToCSS(node), "", <<>>)
         ELSE El("div", node, "", depth, NoUrl, translateAutoLayoutToCSS(node),
                 "", <<>>)
    [] OTHER -> defaultElement(node, depth, walk(childFlag(node, parentHasAutoLayout)))

\* The elements of an output, the root included.
RECURSIVE Elements(_)
Elements(out) ==
  IF out.kind = "empty" THEN {}
  ELSE {out} \cup UNION {Elements(out.children[i]) : i \in 1..Len(out.children)}

\* The nodes of a tree, the root included.
RECURSIVE Nodes(_)
Nodes(node) ==
  {node} \cup UNION {Nodes(node.children[i]) : i \in 1..Len(node.children)}

(***************************************************************************)
(* Code Connect.  this.codeConnectMap is the sequence of its entries in    *)
(* insertion order, each [nodeId, componentName, props, textWeight]; props *)
(* is the sequence of <<key, value>> pairs of Object.entries(props), and   *)
(* textWeight the fontWeight of the first TEXT child of nodeData (0: none).*)
(***************************************************************************)
ccIndex(id) == {i \in 1..Len(codeConnectMap) : codeConnectMap[i].nodeId = id}

ccHas(id) == ccIndex(id) # {}

ccGet(id) == codeConnectMap[SetMin(ccIndex(id))]

NoComp == [kind |-> "null", id |-> "", type |-> "", isDesignSystem |-> FALSE,
           componentName |-> "", props |-> <<>>, tag |-> "", style |-> <<>>,
           className |-> "", textContent |-> "", children |-> <<>>]

getHTMLTag(node) ==
  IF node.type = "TEXT"
  THEN (IF node.name.label = "Heading" THEN "h1" ELSE "p")
  ELSE IF node.type \in {"VECTOR", "BOOLEAN_OPERATION"} THEN "svg"
  ELSE IF node.type = "RECTANGLE" /\ hasImageFill(node) THEN "img"
  ELSE "div"

\* Math.round(bbox.width): hundredths in, whole pixels out.
roundPx(value) == (value + 50) \div 100

getInlineStyles(node) ==
  (IF node.bbox.present
   THEN <<D("width", "px", roundPx(node.bbox.width)),
          D("height", "px", roundPx(node.bbox.height))>>
   ELSE <<>>)
  \o (IF node.layoutMode # ""
      THEN <<D("display", "flex", 0),
             D("flexDirection",
               IF node.layoutMode = "VERTICAL" THEN "column" ELSE "row", 0)>>
      ELSE <<>>)

RECURSIVE nodeToComponentTree(_, _)
nodeToComponentTree(node, depth) ==
  IF isHidden(node) THEN NoComp
  ELSE
  LET kids == [i \in 1..Len(node.children) |->
                 nodeToComponentTree(node.children[i], depth + 1)]
      isComp(c) == c.kind # "null"
      base == [NoComp EXCEPT !.kind = "node", !.id = node.id, !.type = node.type,
                 !.textContent = IF node.type = "TEXT" THEN node.characters ELSE "",
                 !.children = SelectSeq(kids, isComp)]
  IN IF ccHas(node.id)
     THEN [base EXCEPT !.isDesignSystem = TRUE,
                       !.componentName = ccGet(node.id).componentName,
                       !.props = ccGet(node.id).props]
     ELSE [base EXCEPT !.tag = getHTMLTag(node),
                       !.style = getInlineStyles(node),
                       !.className = getClassName(node.name)]

\* One JSX element: a design-system component (isComponent) or an HTML tag.
Jsx(tag, isComponent, id, props, style, text, children) ==
  [tag |-> tag, isComponent |-> isComponent, id |-> id, props |-> props,
   style |-> style, text |-> text, children |-> children]

RECURSIVE buildJSXTree(_)
buildJSXTree(components) ==
  [i \in 1..Len(components) |->
     LET comp == components[i]
         childrenJsx == buildJSXTree(comp.children)
         text == IF childrenJsx = <<>> THEN comp.textContent ELSE ""
     IN IF comp.isDesignSystem /\ comp.componentName # ""
        THEN Jsx(comp.componentName, TRUE, comp.id, comp.props, <<>>, text,
                 childrenJsx)
        ELSE Jsx(IF comp.tag = "" THEN "div" ELSE comp.tag, FALSE, comp.id,
                 <<>>, comp.style, text, childrenJsx)]

RECURSIVE JsxElements(_)
JsxElements(jsx) ==
  UNION {{jsx[i]} \cup JsxElements(jsx[i].children) : i \in 1..Len(jsx)}

(***************************************************************************)
(* React export: generateReactComponentCode works on the rendered HTML.    *)
(* The element that carries data-figma-id="<nodeId>" is cut out, up to its *)
(* closing tag, and <ComponentName key="value" ... /> is put in its place. *)
(***************************************************************************)
RECURSIVE replaceElement(_, _, _)
replaceElement(out, id, by) ==
  IF out.kind # "el" THEN out
  ELSE IF out.id = id THEN by
  ELSE [out EXCEPT !.children =
          [i \in 1..Len(out.children) |-> replaceElement(out.children[i], id, by)]]

RECURSIVE ElementIds(_)
ElementIds(out) ==
  IF out.kind # "el" THEN {}
  ELSE {out.id} \cup UNION {ElementIds(out.children[i]) : i \in 1..Len(out.children)}

\* A design-system component put in the place of an element.
ComponentEl(tag, id, props, style, text) ==
  [kind |-> "component", tag |-> tag, id |-> id, cls |-> "", variant |-> "",
   depth |-> 0, src |-> NoUrl, style |-> style, text |-> text,
   props |-> props, children |-> <<>>]

RECURSIVE exportFrom(_, _, _)
exportFrom(i, jsx, imports) ==
  IF i > Len(codeConnectMap) THEN [jsx |-> jsx, imports |-> imports]
  ELSE LET mapping == codeConnectMap[i] IN
       IF mapping.nodeId \in ElementIds(jsx)
       THEN exportFrom(i + 1,
                       replaceElement(jsx, mapping.nodeId,
                                      ComponentEl(mapping.componentName,
                                                  mapping.nodeId,
                                                  mapping.props, <<>>, <<>>)),
                       imports \cup {mapping.componentName})
       ELSE exportFrom(i + 1, jsx, imports)

generateReactComponentCode(renderedHTML) == exportFrom(1, renderedHTML, {})

(***************************************************************************)
(* Preview hydration: the entry script that generateReactPreviewEntry      *)
(* writes, run in the browser on the preview page.  Props are sequences of *)
(* <<key, value>> pairs in insertion order.                                *)
(***************************************************************************)
toLowerCase(str) ==
  CASE str = "Size" -> "size"       [] str = "Color" -> "color"
    [] str = "Weight" -> "weight"   [] str = "State" -> "state"
    [] str = "XXLarge" -> "xxlarge" [] str = "Large" -> "large"
    [] str = "Main" -> "main"       [] str = "Huge" -> "huge"
    [] OTHER -> str

sizeMap(lowerValue) ==
  CASE lowerValue = "xxlarge" -> "2xl" [] lowerValue = "xlarge" -> "xl"
    [] lowerValue = "large" -> "lg"    [] lowerValue = "medium" -> "md"
    [] lowerValue = "small" -> "sm"    [] lowerValue = "xsmall" -> "xs"
    [] lowerValue = "xxsmall" -> "2xs" [] OTHER -> ""

colorMap(lowerValue) ==
  CASE lowerValue = "main" -> "accent"
    [] lowerValue \in {"neutral", "danger", "success", "warning", "info"}
         -> lowerValue
    [] OTHER -> ""

\* props[key] = value on an object: an existing key keeps its place.
setProp(props, key, value) ==
  IF \E i \in 1..Len(props) : props[i][1] = key
  THEN [i \in 1..Len(props) |->
          IF props[i][1] = key THEN <<key, value>> ELSE props[i]]
  ELSE Append(props, <<key, value>>)

hasProp(props, key) == \E i \in 1..Len(props) : props[i][1] = key

getProp(props, key) ==
  props[CHOOSE i \in 1..Len(props) : props[i][1] = key][2]

sizeValue(value) ==
  IF sizeMap(toLowerCase(value)) # "" THEN sizeMap(toLowerCase(value)) ELSE value

colorValue(value) ==
  IF colorMap(toLowerCase(value)) # "" THEN colorMap(toLowerCase(value))
  ELSE value

RECURSIVE remapFrom(_, _, _)
remapFrom(i, figmaProps, props) ==
  IF i > Len(figmaProps) THEN props
  ELSE LET key == figmaProps[i][1]
           value == figmaProps[i][2]
           lowerKey == toLowerCase(key)
       IN remapFrom(i + 1, figmaProps,
            IF lowerKey = "size" THEN setProp(props, "data-size", sizeValue(value))
            ELSE IF lowerKey = "color"
                 THEN setProp(props, "data-color", colorValue(value))
            ELSE IF lowerKey \in {"weight", "state"} THEN props
            ELSE setProp(props, key, value))

mapFigmaPropsToDesignSystem(componentName, figmaProps) ==
  LET props == remapFrom(1, figmaProps, <<>>)
  IN IF componentName = "Heading" THEN setProp(props, "level", "1") ELSE props

knownExports ==
  {"Alert", "Avatar", "Badge", "BadgePosition", "Breadcrumbs", "BreadcrumbsItem",
   "BreadcrumbsLink", "BreadcrumbsList", "Button", "Card", "CardBlock",
   "Carousel", "Checkbox", "Chip", "CrossCorner", "DateInput", "DatePicker",
   "Details", "Dialog", "Divider", "Dropdown", "DropdownButton",
   "DropdownHeading", "DropdownItem", "DropdownList", "DropdownTrigger",
   "DropdownTriggerContext", "ErrorSummary", "Field", "FieldCounter",
   "FieldDescription", "Fieldset", "Footer", "Header", "Heading", "Input",
   "Label", "LanguageProvider", "Link", "List", "Pagination",
   "PaginationButton", "PaginationItem", "PaginationList", "Paragraph",
   "Popover", "Radio", "Search", "Select", "SkeletonLoader", "SkipLink",
   "Spinner", "Suggestion", "Switch", "Table", "Tabs", "Tag", "Textarea",
   "Textfield", "ToggleGroup", "Tooltip", "ValidationMessage"}

nameMap(componentName) ==
  IF componentName = "Body" THEN "Paragraph" ELSE componentName

\* /^[a-zA-Z_$]/.test(componentName)
startsAsIdentifier(componentName) == componentName \notin {"", "3dIcon"}

isExported(mapping) ==
  /\ mapping.componentName # ""
  /\ startsAsIdentifier(mapping.componentName)
  /\ nameMap(mapping.componentName) \in knownExports

\* The entry script: its import list, its ComponentMap, and the mappings it
\* embeds.  componentTree is [present, codeConnectMappings].
generateReactPreviewEntry(componentTree) ==
  LET mappings == IF componentTree.present
                  THEN componentTree.codeConnectMappings ELSE <<>>
      exported == {i \in 1..Len(mappings) : isExported(mappings[i])}
      componentNames == {nameMap(mappings[i].componentName) : i \in exported}
      originals == {mappings[i].componentName : i \in exported}
  IN [imports |-> componentNames,
      ComponentMap |-> [n \in componentNames \cup originals |-> nameMap(n)],
      codeConnectMappings |-> mappings]

\* element.textContent: the text of the element and of all it contains, as
\* the sequence of its text runs.
RECURSIVE textContent(_)
RECURSIVE textContentOfAll(_, _)
textContent(out) ==
  IF out.kind = "empty" THEN <<>>
  ELSE IF out.kind = "component" THEN out.text
  ELSE out.text \o textContentOfAll(out.children, 1)

textContentOfAll(outs, i) ==
  IF i > Len(outs) THEN <<>>
  ELSE textContent(outs[i]) \o textContentOfAll(outs, i + 1)

\* document.querySelector('[data-figma-id="' + nodeId + '"]')
RECURSIVE querySelector(_, _)
querySelector(out, id) ==
  IF out.kind = "empty" THEN Empty
  ELSE IF out.kind = "el" /\ out.id = id THEN out
  ELSE LET found == {i \in 1..Len(out.children) :
                       querySelector(out.children[i], id).kind # "empty"}
       IN IF found = {} THEN Empty
          ELSE querySelector(out.children[SetMin(found)], id)

\* tagName.match(/h([1-6])/): the level, or "" without a match.
levelMatch(tagName) ==
  CASE tagName = "h1" -> "1" [] tagName = "h2" -> "2" [] tagName = "h3" -> "3"
    [] tagName = "h4" -> "4" [] tagName = "h5" -> "5" [] tagName = "h6" -> "6"
    [] OTHER -> ""

hydrateProps(mapping, element) ==
  LET props == mapFigmaPropsToDesignSystem(mapping.componentName, mapping.props)
      withLevel == IF levelMatch(element.tag) # ""
                   THEN setProp(props, "level", levelMatch(element.tag))
                   ELSE props
  IN IF mapping.componentName # "Heading" THEN props
     ELSE IF mapping.textWeight # 0
          THEN setProp(withLevel, "style", "fontWeight")
          ELSE withLevel

RECURSIVE hydrateFrom(_, _, _)
hydrateFrom(i, entry, document) ==
  IF i > Len(entry.codeConnectMappings) THEN document
  ELSE LET mapping == entry.codeConnectMappings[i]
           element == querySelector(document, mapping.nodeId)
       IN IF element.kind = "empty" THEN hydrateFrom(i + 1, entry, document)
          ELSE IF mapping.componentName \notin DOMAIN entry.ComponentMap
               THEN hydrateFrom(i + 1, entry, document)
          ELSE hydrateFrom(i + 1, entry,
                 replaceElement(document, mapping.nodeId,
                   ComponentEl(entry.ComponentMap[mapping.componentName],
                               mapping.nodeId, hydrateProps(mapping, element),
                               element.style, textContent(element))))

hydrateCodeConnectComponents(entry, document) == hydrateFrom(1, entry, document)

(***************************************************************************)
(* Code Connect mappings as fetchCodeConnectMappings stores them.          *)
(***************************************************************************)
\* name.split(',')[0], cleaned and put in PascalCase.
extractComponentName(nodeData) ==
  CASE nodeData.name.label = "Heading" -> "Heading"
    [] nodeData.name.label = "Body" -> "Body"
    [] nodeData.name.label = "Foo Widget" -> "FooWidget"
    [] nodeData.name.label = "Hero Box" -> "HeroBox"
    [] nodeData.name.label = "Layer" -> "Layer"
    [] OTHER -> ""

extractComponentProps(nodeData) ==
  LET RECURSIVE from(_, _)
      from(i, props) ==
        IF i > Len(nodeData.componentProperties) THEN props
        ELSE from(i + 1,
                  setProp(props, toLowerCase(nodeData.componentProperties[i][1]),
                          nodeData.componentProperties[i][2]))
  IN from(1, <<>>)

RECURSIVE collectComponentNodes(_)
RECURSIVE collectComponentNodesOfAll(_, _)
collectComponentNodes(node) ==
  IF isHidden(node) THEN <<>>
  ELSE (IF node.type = "INSTANCE" \/ node.componentId # ""
        THEN <<node>> ELSE <<>>)
         \o collectComponentNodesOfAll(node.children, 1)

collectComponentNodesOfAll(nodes, i) ==
  IF i > Len(nodes) THEN <<>>
  ELSE collectComponentNodes(nodes[i]) \o collectComponentNodesOfAll(nodes, i + 1)

firstTextWeight(nodeData) ==
  LET texts == {i \in 1..Len(nodeData.children) :
                  nodeData.children[i].type = "TEXT"}
  IN IF texts = {} THEN 0
     ELSE nodeData.children[SetMin(texts)].style.fontWeight

\* The table after the loop over the collected nodes; `answered` holds the
\* ids of the nodes whose request the API answered.
codeConnectMappingsOf(nodeToScan, answered) ==
  LET nodes == collectComponentNodes(nodeToScan)
      stored(nodeData) == /\ nodeData.id \in answered
                          /\ nodeData.componentId # ""
                          /\ extractComponentName(nodeData) # ""
      kept == SelectSeq(nodes, stored)
  IN [i \in 1..Len(kept) |->
        [nodeId |-> kept[i].id,
         componentName |-> extractComponentName(kept[i]),
         props |-> extractComponentProps(kept[i]),
         textWeight |-> firstTextWeight(kept[i])]]

(***************************************************************************)
(* Designs.  A scenario is a loaded design with the caches one completed   *)
(* fetchFigmaData can leave for it.                                        *)
(***************************************************************************)
RootId == "1:1"

ChildId(i) == CASE i = 1 -> "1:2" [] i = 2 -> "1:3" [] i = 3 -> "1:4"
                [] OTHER -> "1:5"

InnerId(i) == CASE i = 1 -> "2:2" [] i = 2 -> "2:3" [] i = 3 -> "2:4"
                [] OTHER -> "2:5"

Text(id, characters) == [Node(id, "TEXT") EXCEPT !.characters = characters]

Scenario(document, images, defs, answered) ==
  [document |-> document, imageUrls |-> images, svgContent |-> EmptyMap,
   videoUrls |-> EmptyMap, gifUrls |-> EmptyMap, variableDefs |-> defs,
   codeConnectMap |-> codeConnectMappingsOf(document, answered)]

AllIds == {RootId} \cup {ChildId(i) : i \in 1..4} \cup {InnerId(i) : i \in 1..4}

\* Visibility: a root with up to MaxChildren children of several types, the
\* composite ones with a child of their own; every node shown or hidden.
CompositeTypes == {"FRAME", "GROUP", "INSTANCE", "SECTION"}

ChildSpecs ==
  [type : CompositeTypes, visible : BOOLEAN, inner : BOOLEAN]
    \cup [type : {"TEXT"}, visible : BOOLEAN, inner : {TRUE}]

SpecChild(i, c) ==
  [Node(ChildId(i), c.type) EXCEPT
     !.visible = c.visible,
     !.name = IF c.type = "INSTANCE" THEN Name("Heading") ELSE Name("Layer"),
     !.componentId = IF c.type = "INSTANCE" THEN "C:1" ELSE "",
     !.characters = IF c.type = "TEXT" THEN "Hello" ELSE "",
     !.children = IF c.type = "TEXT" THEN <<>>
                  ELSE <<[Text(InnerId(i), "Hi") EXCEPT !.visible = c.inner]>>]

VisibilityTrees ==
  UNION {{[Node(RootId, "FRAME") EXCEPT
             !.visible = v,
             !.children = [i \in 1..n |-> SpecChild(i, kids[i])]] :
            kids \in [1..n -> ChildSpecs], v \in BOOLEAN} : n \in 0..MaxChildren}

VisibilityScenarios ==
  {Scenario(t, EmptyMap, <<>>, answered) :
     t \in VisibilityTrees, answered \in {{}, AllIds}}

\* Sizing: one node of each kind under an Auto-Layout root, with every
\* pair of sizing modes, with and without a bounding box.
SizingModes == {"", "FIXED", "HUG", "FILL"}

SizedKinds == {"FRAME", "RECTANGLE", "TEXT", "video", "lottie", "image",
               "ELLIPSE", "LINE", "VECTOR", "INSTANCE", "GROUP"}

SizedNode(kind, h, v, bbox) ==
  [Node(ChildId(1),
        IF kind \in {"video", "lottie", "image"} THEN "RECTANGLE" ELSE kind)
   EXCEPT
     !.layoutSizingHorizontal = h, !.layoutSizingVertical = v, !.bbox = bbox,
     !.name = IF kind = "lottie"
              THEN [label |-> "Layer", host |-> "lottie.host", ext |-> "json"]
              ELSE Name("Layer"),
     !.fills = CASE kind = "video" -> <<Fill("VIDEO")>>
                 [] kind \in {"image", "INSTANCE"} -> <<Fill("IMAGE")>>
                 [] OTHER -> <<>>,
     !.characters = IF kind = "TEXT" THEN "Hello" ELSE ""]

SizingScenarios ==
  {Scenario([Node(RootId, "FRAME") EXCEPT
               !.layoutMode = "HORIZONTAL",
               !.children = <<SizedNode(kind, h, v, bbox)>>],
            IF kind \in {"image", "INSTANCE"}
            THEN Put(EmptyMap, ChildId(1), "https://img/1.png") ELSE EmptyMap,
            <<>>, {}) :
     kind \in SizedKinds, h \in SizingModes, v \in SizingModes,
     bbox \in {BBox(12345, 5005), NoBBox}}

\* Alignment: an Auto-Layout container with up to MaxChildren children.
AlignScenarios ==
  UNION {{Scenario([Node(RootId, type) EXCEPT
                      !.layoutMode = mode, !.primaryAxisAlignItems = align,
                      !.children = [i \in 1..n |->
                                      [Text(ChildId(i), "Hello") EXCEPT
                                         !.visible = shown[i]]]],
                   EmptyMap, <<>>, {}) :
            type \in {"FRAME", "INSTANCE"}, mode \in {"HORIZONTAL", "VERTICAL"},
            align \in {"", "MIN", "CENTER", "MAX", "SPACE_BETWEEN"},
            shown \in [1..n -> BOOLEAN]} : n \in 0..MaxChildren}

\* Tokens: a text node with one property bound (or none), in each form a
\* binding takes, against several token tables.
Def(name) == [name |-> name, cssVar |-> cssVarName(name)]

TokenTables ==
  {<<>>, <<Def("font-size/10")>>, <<Def("font-size/4")>>,
   <<Def("font-size/4"), Def("font-size/10")>>, <<Def("color/brand")>>,
   <<Def("spacing/2"), Def("font-family")>>,
   <<Def("color/neutral/text-default"), Def("font-family"), Def("font-size/10")>>}

VariableIds == {"VariableID:1:7", "font-size/4", "color/brand"}

Bindings ==
  {[isArray |-> FALSE, ids |-> <<id>>] : id \in VariableIds \cup {""}}
    \cup {[isArray |-> TRUE, ids |-> ids] :
            ids \in {<<>>} \cup {<<id>> : id \in VariableIds \cup {""}}
                      \cup {<<"", id>> : id \in VariableIds}}

BoundProperties == {"fontFamily", "fontSize", "fills"}

BoundText(bound) ==
  [Text(ChildId(1), "Hello") EXCEPT
     !.style = [NoStyle EXCEPT !.present = TRUE, !.fontFamily = "Inter",
                               !.fontSize = 1600, !.fontWeight = 400],
     !.fills = <<Fill("SOLID")>>,
     !.boundVariables = bound]

TokenScenarios ==
  {Scenario([Node(RootId, "FRAME") EXCEPT !.children = <<BoundText(bound)>>],
            EmptyMap, defs, {}) :
     bound \in {EmptyMap} \cup {Put(EmptyMap, property, b) :
                                  property \in BoundProperties, b \in Bindings},
     defs \in TokenTables}

\* Bindings: an instance, with variant properties and up to one text child,
\* whose Code Connect request the API answered or not; next to it a text
\* node that is an instance of a component itself.
ComponentLabels == {"Heading", "Body", "Foo Widget"}

VariantProperties ==
  {<<>>, <<<<"Size", "xxlarge">>, <<"Color", "main">>>>,
   <<<<"Size", "XXLarge">>, <<"Color", "neutral">>>>,
   <<<<"Size", "Huge">>, <<"Color", "brand">>>>,
   <<<<"Weight", "bold">>, <<"State", "hover">>, <<"label", "Go">>>>,
   <<<<"Size", "small">>, <<"label", "Go">>>>}

BoundInstance(label, properties, withText) ==
  [Node(ChildId(1), "INSTANCE") EXCEPT
     !.name = Name(label), !.componentId = "C:1",
     !.layoutMode = "HORIZONTAL",
     !.componentProperties = properties,
     !.children = IF withText
                  THEN <<[Text(InnerId(1), "Title") EXCEPT
                            !.style = [NoStyle EXCEPT !.present = TRUE,
                                                      !.fontWeight = 700]]>>
                  ELSE <<>>]

BoundHeadingText ==
  [Text(ChildId(2), "News") EXCEPT
     !.name = Name("Heading"), !.componentId = "C:2",
     !.style = [NoStyle EXCEPT !.present = TRUE, !.fontSize = 3200]]

BindingScenarios ==
  {Scenario([Node(RootId, "FRAME") EXCEPT
               !.children = <<BoundInstance(label, properties, withText)>>
                              \o (IF second THEN <<BoundHeadingText>> ELSE <<>>)],
            EmptyMap, <<>>, answered) :
     label \in ComponentLabels, properties \in VariantProperties,
     withText \in BOOLEAN, second \in BOOLEAN,
     answered \in {{}, {ChildId(1)}, {ChildId(1), ChildId(2)}}}

\* Headings: a node bound to the Heading component, either an instance around
\* a text or the text itself, the text of several sizes.
HeadingScenarios ==
  {Scenario([Node(RootId, "FRAME") EXCEPT
               !.children =
                 <<IF asText
                   THEN [Text(ChildId(1), "News") EXCEPT
                           !.name = Name("Heading"), !.componentId = "C:1",
                           !.style = [NoStyle EXCEPT !.present = TRUE,
                                                     !.fontSize = fontSize]]
                   ELSE [Node(ChildId(1), "INSTANCE") EXCEPT
                           !.name = Name("Heading"), !.componentId = "C:1",
                           !.children =
                             <<[Text(InnerId(1), "News") EXCEPT
                                  !.style = [NoStyle EXCEPT
                                               !.present = TRUE,
                                               !.fontSize = fontSize]]>>]>>],
            EmptyMap, <<>>, {ChildId(1)}) :
     asText \in BOOLEAN, fontSize \in {1600, 2400, 3200, 4800}}

\* Text: a text node of each font size and weight about the thresholds of the
\* heading levels, under several layer names, with and without a style.
FontSizes == {0, 1600, 1799, 1800, 2399, 2400, 3000, 3199, 3200, 4799, 4800}

FontWeights == {0, 400, 599, 600, 700}

TextLabels == {"Layer", "Heading", "Title"}

StyledText(label, fontSize, fontWeight) ==
  [Text(ChildId(1), "Hello") EXCEPT
     !.name = Name(label),
     !.style = [NoStyle EXCEPT !.present = TRUE, !.fontSize = fontSize,
                               !.fontWeight = fontWeight]]

TextScenarios ==
  {Scenario([Node(RootId, "FRAME") EXCEPT !.children = <<text>>],
            EmptyMap, <<>>, {}) :
     text \in {StyledText(label, fontSize, fontWeight) :
                 label \in TextLabels, fontSize \in FontSizes,
                 fontWeight \in FontWeights}
               \cup {[Text(ChildId(1), "Hello") EXCEPT !.name = Name(label)] :
                       label \in TextLabels}}

\* Line heights: a text with any of the three line-height fields.
LineHeightScenarios ==
  {Scenario([Node(RootId, "FRAME") EXCEPT
               !.children =
                 <<[Text(ChildId(1), "Hello") EXCEPT
                      !.style = [NoStyle EXCEPT
                                   !.present = TRUE, !.fontSize = 1600,
                                   !.lineHeightPercentFontSize = ofFontSize,
                                   !.lineHeightPercent = percent,
                                   !.lineHeightPx = px]]>>],
            EmptyMap, <<>>, {}) :
     ofFontSize \in {0, 150}, percent \in {0, 120}, px \in {0, 2400, 2444}}

\* Media: a node of each type whose name carries a URL (or none), with the
\* fills and the cache entries fetchImageUrls leaves for such a node.
NameUrls ==
  {[host |-> "", ext |-> ""],
   [host |-> "assets1.lottiefiles.com", ext |-> "json"],
   [host |-> "lottie.host", ext |-> "lottie"],
   [host |-> "lottie.host", ext |-> "JSON"],
   [host |-> "lottie.host", ext |-> "html"],
   [host |-> "app.lottiefiles.com", ext |-> ""],
   [host |-> "app.lottiefiles.com", ext |-> "json"],
   [host |-> "example.com", ext |-> "json"]}

MediaTypes == {"FRAME", "RECTANGLE", "INSTANCE", "GROUP", "VECTOR", "ELLIPSE",
               "TEXT"}

MediaKinds == {"none", "video", "video-unresolved", "video-by-name", "gif",
               "image", "image-unresolved", "svg", "svg-image"}

MediaNode(type, url, kind) ==
  [Node(ChildId(1), type) EXCEPT
     !.name = [label |-> CASE kind = "gif" -> "Promo gif"
                           [] kind = "video-by-name" -> "Intro video"
                           [] OTHER -> "Layer",
               host |-> url.host, ext |-> url.ext],
     !.fills = CASE kind \in {"video", "video-unresolved"} -> <<Fill("VIDEO")>>
                 [] kind \in {"video-by-name", "gif", "image", "image-unresolved",
                             "svg-image"} -> <<Fill("IMAGE")>>
                 [] OTHER -> <<>>,
     !.characters = IF type = "TEXT" THEN "Hello" ELSE ""]

MediaScenario(type, url, kind) ==
  [Scenario([Node(RootId, "FRAME") EXCEPT
                !.children = <<MediaNode(type, url, kind)>>],
             IF kind \in {"image", "svg-image"}
             THEN Put(EmptyMap, ChildId(1), "https://img/1.png") ELSE EmptyMap,
             <<>>, {})
    EXCEPT
      !.videoUrls = IF kind \in {"video", "video-by-name"}
                    THEN Put(EmptyMap, ChildId(1), "https://img/1.mp4")
                    ELSE EmptyMap,
      !.gifUrls = IF kind = "gif"
                  THEN Put(EmptyMap, ChildId(1), "https://img/1.gif")
                  ELSE EmptyMap,
      !.svgContent = IF kind \in {"svg", "svg-image"}
                     THEN Put(EmptyMap, ChildId(1), "<svg/>") ELSE EmptyMap]

MediaScenarios ==
  {MediaScenario(tk[1], url, tk[2]) :
     tk \in {x \in MediaTypes \X MediaKinds : x[2] \in {"svg", "svg-image"} => x[1] = "VECTOR"},
     url \in NameUrls}

\* Unknown types: a node of a type the walker has no case for, with up to
\* MaxChildren children, known or unknown, shown or hidden.
UnknownTypes == {"SECTION", "WIDGET"}

UnknownChild(i, type, visible) ==
  [Node(ChildId(i), type) EXCEPT
     !.visible = visible,
     !.characters = IF type = "TEXT" THEN "Hello" ELSE "",
     !.children = IF type = "TEXT" THEN <<>> ELSE <<Text(InnerId(i), "Hi")>>]

UnknownScenarios ==
  UNION {{Scenario([Node(RootId, type) EXCEPT
                      !.layoutMode = mode,
                      !.children = [i \in 1..n |->
                                      UnknownChild(i, kids[i][1], kids[i][2])]],
                   EmptyMap, <<>>, {}) :
            type \in UnknownTypes, mode \in {"", "VERTICAL"},
            kids \in [1..n -> {"TEXT", "FRAME", "WIDGET"} \X BOOLEAN]} :
         n \in 0..MaxChildren}

\* Paints: a painted frame, rectangle or ellipse under the root.  Its fills are
\* solid, hidden, image or gradient, the gradients with handles in several
\* directions, with one handle or none, with and without stops; its strokes
\* open with a solid, a gradient, an image or a hidden paint; the frame may
\* carry the legacy backgroundColor.
Handles ==
  {<<>>, <<<<0, 0>>>>} \cup
  {<<<<0, 0>>, end>> :
     end \in {<<1, 0>>, <<0, 1>>, <<-1, 0>>, <<0, -1>>, <<1, 1>>, <<-1, 1>>,
              <<-1, -1>>, <<1, -1>>, <<2, 1>>, <<1, 2>>, <<0, 0>>}}

Stops == <<"#000000 0%", "#ffffff 100%">>

Gradient(type, handles, hasStops) ==
  [Fill(type) EXCEPT !.color = "", !.gradientHandlePositions = handles,
                     !.hasStops = hasStops,
                     !.gradientStops = IF hasStops THEN Stops ELSE <<>>]

Hidden(paint) == [paint EXCEPT !.visible = FALSE]

Solid(color) == [Fill("SOLID") EXCEPT !.color = color]

Gradients ==
  {Gradient("GRADIENT_LINEAR", handles, hasStops) :
     handles \in Handles, hasStops \in BOOLEAN}
  \cup {Gradient(type, handles, hasStops) :
          type \in GradientTypes \ {"GRADIENT_LINEAR"},
          handles \in {<<>>, <<<<0, 0>>>>, <<<<0, 0>>, <<1, 1>>>>},
          hasStops \in BOOLEAN}

PaintedFills ==
  {<<>>, <<Solid("#112233")>>, <<Hidden(Solid("#112233"))>>,
   <<Fill("IMAGE")>>}
  \cup {<<g>> : g \in Gradients}
  \cup {<<Hidden(Solid("#112233")), g>> : g \in Gradients}

PaintedStrokes ==
  {<<Solid("#445566")>>,
   <<Gradient("GRADIENT_LINEAR", <<<<0, 0>>, <<1, 0>>>>, TRUE), Solid("#445566")>>,
   <<Fill("IMAGE"), Solid("#445566")>>,
   <<Hidden(Solid("#778899")), Solid("#445566")>>,
   <<Hidden(Gradient("GRADIENT_LINEAR", <<<<0, 0>>, <<1, 0>>>>, TRUE)),
     Solid("#445566")>>,
   <<Gradient("GRADIENT_LINEAR", <<<<0, 0>>, <<1, 0>>>>, TRUE)>>}

PaintedTypes == {"FRAME", "RECTANGLE", "ELLIPSE"}

Painted(type, fills, backgroundColor, strokes, strokeWeight) ==
  [Node(ChildId(1), type) EXCEPT
     !.fills = fills, !.backgroundColor = backgroundColor,
     !.strokes = strokes, !.strokeWeight = strokeWeight]

PaintScenarios ==
  {Scenario([Node(RootId, "FRAME") EXCEPT
               !.layoutMode = "VERTICAL",
               !.children = <<Painted(type, fills, backgroundColor, <<>>, 0)>>],
            EmptyMap, <<>>, {}) :
     type \in PaintedTypes, fills \in PaintedFills,
     backgroundColor \in {"", "#ffffff"}}
  \cup
  {Scenario([Node(RootId, "FRAME") EXCEPT
               !.layoutMode = "VERTICAL",
               !.children = <<Painted(type, fills, "", strokes, strokeWeight)>>],
            EmptyMap, <<>>, {}) :
     type \in PaintedTypes, fills \in {<<>>, <<Solid("#112233")>>},
     strokes \in PaintedStrokes, strokeWeight \in {0, 150, 200}}

\* Effects: a frame or rectangle under the root with up to MaxEffects effects
\* of the four types, in every order.
EffectTypes == {"DROP_SHADOW", "INNER_SHADOW", "LAYER_BLUR", "BACKGROUND_BLUR"}

Effect(type) == [type |-> type, visible |-> TRUE]

EffectScenarios ==
  UNION {{Scenario([Node(RootId, "FRAME") EXCEPT
                      !.layoutMode = "VERTICAL",
                      !.children =
                        <<[Node(ChildId(1), type) EXCEPT
                             !.effects = [i \in 1..n |-> Effect(types[i])]]>>],
                   EmptyMap, <<>>, {}) :
            type \in {"FRAME", "RECTANGLE"}, types \in [1..n -> EffectTypes]} :
         n \in 1..MaxEffects}

\* Threading: a container of each kind, with or without a layout of its own,
\* around a text, under a root with or without Auto Layout.
ThreadingScenarios ==
  {Scenario([Node(RootId, "FRAME") EXCEPT
               !.layoutMode = mode,
               !.children = <<[Node(ChildId(1), type) EXCEPT
                                 !.layoutMode = inner,
                                 !.children = <<Text(InnerId(1), "Hi")>>]>>],
            EmptyMap, <<>>, {}) :
     mode \in {"", "VERTICAL"}, inner \in {"", "HORIZONTAL"},
     type \in {"FRAME", "GROUP", "INSTANCE", "COMPONENT", "SECTION"}}

Scenarios ==
  VisibilityScenarios \cup SizingScenarios \cup AlignScenarios
    \cup TokenScenarios \cup BindingScenarios \cup TextScenarios
    \cup MediaScenarios \cup UnknownScenarios \cup PaintScenarios
    \cup EffectScenarios \cup ThreadingScenarios \cup LineHeightScenarios
    \cup HeadingScenarios

(***************************************************************************)
(* State of the server and of the compiler instance.                       *)
(***************************************************************************)
NoData == [present |-> FALSE, document |-> Node("", "")]

Loaded(document) == [present |-> TRUE, document |-> document]

\* this.currentComponentTree.  buildComponentTree stores this.codeConnectMap
\* itself, not a copy: while `shared`, the tree's mappings are that object.
NoTree == [present |-> FALSE, shared |-> FALSE, codeConnectMappings |-> <<>>]

treeMappings ==
  [present |-> currentComponentTree.present,
   codeConnectMappings |-> IF currentComponentTree.shared THEN codeConnectMap
                           ELSE currentComponentTree.codeConnectMappings]

Caches == {"variableDefs", "svgContent", "imageUrls", "videoUrls", "gifUrls",
           "codeConnectMap"}

\* new FigmaMCPClient(serverConfig): connected and useDirectAPI, the url of
\* serverConfig and USE_MOCK_DATA; whether the MCP server and the Figma API
\* answer; the await a connect() is at ("" when none runs), the callTool in
\* flight, how the last connect() ended (mode) and how it had ended when
\* callTool was last invoked (invokedIn), and what the last step did and
\* returned.
NoCall == [tool |-> "", pc |-> ""]

NewClient(url, useMock, mcpUp, apiUp) ==
  [connected |-> FALSE, useDirectAPI |-> FALSE,
   url |-> url, useMock |-> useMock, mcpUp |-> mcpUp, apiUp |-> apiUp,
   connecting |-> "", call |-> NoCall, mode |-> "", invokedIn |-> "",
   did |-> "", tool |-> "", outcome |-> "", requested |-> FALSE]

DefaultUrl == "http://localhost:3000"

NoResult ==
  [op |-> "", status |-> 0,
   readFrom |-> [c \in Caches \cup {"figmaData"} |-> {}], html |-> Empty,
   node |-> "", style |-> <<>>, tag |-> "",
   imports |-> {}, tree |-> NoComp, jsx |-> <<>>,
   entry |-> generateReactPreviewEntry(NoTree)]

extractNodeToRender(data) == data.document

buildComponentTree(data) ==
  IF data.present
  THEN [present |-> TRUE, shared |-> TRUE, codeConnectMappings |-> <<>>]
  ELSE [present |-> TRUE, shared |-> FALSE, codeConnectMappings |-> <<>>]

\* translateNodeToHTML(nodeToRender), as every handler calls it.
renderedHTML == translateNodeToHTML(extractNodeToRender(figmaData), 0, FALSE)

Init ==
  \E sc \in Scenarios :
    /\ figmaData = Loaded(sc.document)
    /\ currentUrl = "https://www.figma.com/design/K1?node-id=1-1"
    /\ fileKey = "K1"
    /\ nodeId = "1:1"
    /\ imageUrls = sc.imageUrls
    /\ svgContent = sc.svgContent
    /\ videoUrls = sc.videoUrls
    /\ gifUrls = sc.gifUrls
    /\ variableDefs = sc.variableDefs
    /\ codeConnectMap = sc.codeConnectMap
    /\ currentComponentTree = NoTree
    /\ envToken = "t1"
    /\ reqs = {}
    /\ fetchSeq = 1
    /\ owner = [c \in Caches \cup {"figmaData"} |-> {1}]
    /\ result = NoResult
    /\ rendered = {}
    /\ client = NewClient(DefaultUrl, FALSE, FALSE, TRUE)
    /\ tokens = {"t1"}

instance == <<imageUrls, svgContent, videoUrls, gifUrls, variableDefs,
              codeConnectMap>>

server == <<figmaData, currentUrl, fileKey, nodeId, envToken, reqs, fetchSeq,
            owner>>

\* GET /compiler
GetCompiler_consuming ==
  /\ currentComponentTree' = IF figmaData.present
                             THEN buildComponentTree(figmaData)
                             ELSE currentComponentTree
  /\ result' = [NoResult EXCEPT
                  !.op = "compiler", !.status = 200, !.readFrom = owner,
                  !.html = IF figmaData.present THEN renderedHTML ELSE Empty]
  /\ rendered' = IF figmaData.present THEN rendered \cup {renderedHTML}
                 ELSE rendered
  /\ imageUrls' = EmptyMap
  /\ UNCHANGED <<client, tokens, svgContent, videoUrls, gifUrls, variableDefs, codeConnectMap,
                 server>>

GetCompiler ==
  /\ currentComponentTree' = IF figmaData.present
                             THEN buildComponentTree(figmaData)
                             ELSE currentComponentTree
  /\ result' = [NoResult EXCEPT
                  !.op = "compiler", !.status = 200, !.readFrom = owner,
                  !.html = IF figmaData.present THEN renderedHTML ELSE Empty]
  /\ rendered' = IF figmaData.present THEN rendered \cup {renderedHTML}
                 ELSE rendered
  /\ UNCHANGED <<client, tokens, instance, server>>

\* GET /react-preview
GetReactPreview ==
  /\ currentComponentTree' = buildComponentTree(figmaData)
  /\ result' = [NoResult EXCEPT
                  !.op = "react-preview", !.status = 200, !.readFrom = owner,
                  !.html = IF figmaData.present THEN renderedHTML ELSE Empty]
  /\ rendered' = IF figmaData.present THEN rendered \cup {renderedHTML}
                 ELSE rendered
  /\ UNCHANGED <<client, tokens, instance, server>>

\* GET /api/export-html
GetExportHtml ==
  /\ result' = IF figmaData.present
               THEN [NoResult EXCEPT !.op = "export-html", !.status = 200,
                                     !.readFrom = owner,
                                     !.html = renderedHTML]
               ELSE [NoResult EXCEPT !.op = "export-html", !.status = 400]
  /\ rendered' = IF figmaData.present THEN rendered \cup {renderedHTML}
                 ELSE rendered
  /\ UNCHANGED <<client, tokens, instance, server, currentComponentTree>>

\* GET /api/export-react
GetExportReact ==
  /\ result' = IF figmaData.present
               THEN LET code == generateReactComponentCode(renderedHTML)
                    IN [NoResult EXCEPT !.op = "export-react", !.status = 200,
                                        !.readFrom = owner,
                                        !.html = code.jsx,
                                        !.imports = code.imports]
               ELSE [NoResult EXCEPT !.op = "export-react", !.status = 400]
  /\ rendered' = IF figmaData.present THEN rendered \cup {renderedHTML}
                 ELSE rendered
  /\ UNCHANGED <<client, tokens, instance, server, currentComponentTree>>

\* GET /api/react-bundle from a page the browser shows, and the hydration
\* of that page by the entry script of the bundle.
GetReactBundle ==
  /\ result.op \in {"compiler", "react-preview"}
  /\ LET entry == generateReactPreviewEntry(treeMappings)
     IN result' = [NoResult EXCEPT
                     !.op = "hydrated", !.status = 200, !.entry = entry,
                     !.imports = entry.imports,
                     !.html = hydrateCodeConnectComponents(entry, result.html)]
  /\ UNCHANGED <<client, tokens, instance, server, currentComponentTree, rendered>>

\* nodeToComponentTree on the loaded design, and buildJSXTree on its result.
ComponentTree ==
  /\ figmaData.present
  /\ LET tree == nodeToComponentTree(extractNodeToRender(figmaData), 0)
     IN result' = [NoResult EXCEPT
                     !.op = "component-tree", !.tree = tree,
                     !.jsx = IF tree.kind = "null" THEN <<>>
                             ELSE buildJSXTree(<<tree>>)]
  /\ UNCHANGED <<client, tokens, instance, server, currentComponentTree, rendered>>

\* CompilerEngine.translateFillToCSS.  The record tells whether the call threw
\* (a property read of an undefined color or gradientStops); kw = "" is null.
NoCSS == [threw |-> FALSE, kw |-> "", n |-> 0]

Threw == [threw |-> TRUE, kw |-> "", n |-> 0]

engineGradientAngle(handles) ==
  IF Len(handles) >= 2
  THEN mathRound(mathAngle(handles[1], handles[2]) + 9000)
  ELSE 180

translateFillToCSS(fill) ==
  IF ~fill.visible THEN NoCSS
  ELSE CASE fill.type = "SOLID" ->
              IF fill.color = "" THEN Threw
              ELSE [threw |-> FALSE, kw |-> fill.color, n |-> 0]
         [] fill.type = "GRADIENT_LINEAR" ->
              IF ~fill.hasStops THEN Threw
              ELSE [threw |-> FALSE, kw |-> "linear-gradient",
                    n |-> engineGradientAngle(fill.gradientHandlePositions)]
         [] fill.type = "GRADIENT_RADIAL" ->
              IF ~fill.hasStops THEN Threw
              ELSE [threw |-> FALSE, kw |-> "radial-gradient", n |-> 0]
         [] OTHER -> NoCSS

includesGradient(css) == css.kw \in {"linear-gradient", "radial-gradient"}

firstVisible(paints) ==
  LET shown == {i \in 1..Len(paints) : paints[i].visible}
  IN IF shown = {} THEN NoCSS ELSE translateFillToCSS(paints[SetMin(shown)])

\* CompilerEngine.translateAutoLayoutToCSS, "Background".
engineFills(node) ==
  LET fillCSS == firstVisible(node.fills)
  IN IF fillCSS.kw = "" THEN <<>>
     ELSE IF includesGradient(fillCSS)
     THEN <<D("background", fillCSS.kw, fillCSS.n)>>
     ELSE <<D("background-color", fillCSS.kw, 0)>>

\* CompilerEngine.translateAutoLayoutToCSS, "Strokes".
engineStrokes(node) ==
  LET strokeColor == firstVisible(node.strokes)
      strokeWeight == IF node.strokeWeight = 0 THEN 100 ELSE node.strokeWeight
  IN IF strokeColor.kw # "" /\ ~includesGradient(strokeColor)
     THEN <<D("border", strokeColor.kw, round(strokeWeight))>>
     ELSE <<>>

\* CompilerEngine.translateAutoLayoutToCSS, "Background color from node".
engineBackgroundColor(node) ==
  IF node.backgroundColor # ""
  THEN <<D("background-color", node.backgroundColor, 0)>> ELSE <<>>

engineThrows(node) ==
  firstVisible(node.fills).threw \/ firstVisible(node.strokes).threw

\* CompilerEngine (src/compiler-engine.js): translateAutoLayoutToCSS on a
\* frame or group of the design, as its translateNodeToHTML calls it.
engineTranslateAutoLayoutToCSS(node) ==
  engineSize(node) \o engineFills(node) \o engineStrokes(node)
    \o engineBackgroundColor(node) \o flexLayout(node)
    \o effectCSS(node, TRUE)

EngineTranslate ==
  /\ figmaData.present
  /\ \E node \in Nodes(figmaData.document) :
       /\ node.type \in {"FRAME", "GROUP"}
       /\ ~hasLottieFill(node)
       /\ result' = IF engineThrows(node)
                    THEN [NoResult EXCEPT !.op = "engine-threw", !.node = node.id]
                    ELSE [NoResult EXCEPT
                            !.op = "engine", !.node = node.id,
                            !.style = engineTranslateAutoLayoutToCSS(node)]
  /\ UNCHANGED <<client, tokens, instance, server, currentComponentTree, rendered>>

\* CompilerEngine.getSemanticTag: (node.name || '').toLowerCase().includes(..),
\* over the labels of the model.
getSemanticTag(node) ==
  CASE node.name.label \in {"Heading", "Title"} -> "h2"
    [] OTHER -> "p"

\* CompilerEngine.translateNodeToHTML on a text node of the design: its tag
\* and the line height of its style.
EngineText ==
  /\ figmaData.present
  /\ \E node \in Nodes(figmaData.document) :
       /\ node.type = "TEXT"
       /\ ~isHidden(node)
       /\ result' = [NoResult EXCEPT
                       !.op = "engine-text", !.node = node.id,
                       !.tag = getSemanticTag(node),
                       !.style = engineLineHeight(node.style)]
  /\ UNCHANGED <<client, tokens, instance, server, currentComponentTree, rendered>>

Next ==
  \/ GetCompiler
  \/ GetReactPreview
  \/ GetExportHtml
  \/ GetExportReact
  \/ GetReactBundle
  \/ ComponentTree
  \/ EngineTranslate
  \/ EngineText

Spec == Init /\ [][Next]_vars

(***************************************************************************)
(* Properties.                                                             *)
(***************************************************************************)
HtmlOps == {"compiler", "react-preview", "export-html", "export-react",
            "hydrated"}

NodeOf(id) == CHOOSE n \in Nodes(figmaData.document) : n.id = id

\* The ids of the nodes that are hidden or lie below a hidden node.
RECURSIVE PrunedIds(_, _)
PrunedIds(node, below) ==
  LET gone == below \/ node.visible = FALSE
  IN (IF gone THEN {node.id} ELSE {})
       \cup UNION {PrunedIds(node.children[i], gone) :
                     i \in 1..Len(node.children)}

RECURSIVE CompIds(_)
CompIds(comp) ==
  IF comp.kind = "null" THEN {}
  ELSE {comp.id} \cup UNION {CompIds(comp.children[i]) :
                               i \in 1..Len(comp.children)}

\* C1 - Pruning: a node with visible = false, and every node below it
\* whatever its own flag, has no element in the output of the walker and no
\* entry in the component tree.
C1_Pruning ==
  LET gone == PrunedIds(figmaData.document, FALSE)
  IN /\ result.op \in HtmlOps =>
          {el.id : el \in Elements(result.html)} \cap gone = {}
     /\ result.op = "component-tree" => CompIds(result.tree) \cap gone = {}

C1_Witness ==
  /\ result.op = "compiler"
  /\ result.html.kind = "el"
  /\ \E n \in Nodes(figmaData.document) :
       /\ n.visible = FALSE
       /\ \E i \in 1..Len(n.children) : n.children[i].visible

Declares(style, prop) == \E i \in 1..Len(style) : style[i].prop = prop

Contains(style, decl) == \E i \in 1..Len(style) : style[i] = decl

\* Rounding to one decimal place, halves upwards: hundredths to tenths.
HalfUp(hundredths) == (hundredths + 5) \div 10

SizedAsStated(n, style) ==
  /\ n.layoutSizingHorizontal = "FILL" => Contains(style, D("flex", "1", 0))
  /\ n.layoutSizingVertical = "FILL" => Contains(style, D("flex-grow", "1", 0))
  /\ n.layoutSizingHorizontal = "HUG" => ~Declares(style, "width")
  /\ n.layoutSizingVertical = "HUG" => ~Declares(style, "height")
  /\ n.layoutSizingHorizontal \in {"", "FIXED"} /\ n.bbox.present =>
       Contains(style, D("width", "px", HalfUp(n.bbox.width)))
  /\ n.layoutSizingVertical \in {"", "FIXED"} /\ n.bbox.present =>
       Contains(style, D("height", "px", HalfUp(n.bbox.height)))

\* C4 - Sizing outcome: for every node, FILL gives 'flex: 1' (horizontal) or
\* 'flex-grow: 1' (vertical), HUG gives no width or height declaration, and
\* FIXED or no mode gives the bounding-box dimension rounded half-up to one
\* decimal place.
C4_SizingOutcome ==
  /\ result.op \in {"compiler", "react-preview", "export-html"} =>
       \A el \in Elements(result.html) : SizedAsStated(NodeOf(el.id), el.style)
  /\ result.op = "engine" => SizedAsStated(NodeOf(result.node), result.style)

FixedAndFill(style) ==
  \/ /\ \E i \in 1..Len(style) : style[i].prop = "width" /\ style[i].kw = "px"
     /\ Contains(style, D("flex", "1", 0))
  \/ /\ \E i \in 1..Len(style) : style[i].prop = "height" /\ style[i].kw = "px"
     /\ Contains(style, D("flex-grow", "1", 0))

\* C5 - Sizing exclusivity: no declaration list holds both a fixed dimension
\* of an axis and the flex-fill declaration of that axis.
C5_SizingExclusive ==
  /\ result.op \in HtmlOps =>
       \A el \in Elements(result.html) : ~FixedAndFill(el.style)
  /\ result.op = "engine" => ~FixedAndFill(result.style)

C5_Witness ==
  /\ result.op = "compiler"
  /\ \E el \in Elements(result.html) :
       /\ el.variant = "video-container"
       /\ NodeOf(el.id).layoutSizingHorizontal = "FILL"
       /\ NodeOf(el.id).layoutSizingVertical = "FIXED"
       /\ Contains(el.style, D("flex", "1", 0))
       /\ Contains(el.style, D("height", "px", 501))

JustifiedAsStated(n, style) ==
  n.layoutMode # "" =>
    /\ n.primaryAxisAlignItems = "SPACE_BETWEEN" /\ Len(n.children) = 1 =>
         Contains(style, D("justify-content", "center", 0))
    /\ n.primaryAxisAlignItems = "SPACE_BETWEEN" /\ Len(n.children) >= 2 =>
         Contains(style, D("justify-content", "space-between", 0))
    /\ n.primaryAxisAlignItems = "MIN" =>
         Contains(style, D("justify-content", "flex-start", 0))
    /\ n.primaryAxisAlignItems = "CENTER" =>
         Contains(style, D("justify-content", "center", 0))
    /\ n.primaryAxisAlignItems = "MAX" =>
         Contains(style, D("justify-content", "flex-end", 0))

PropertyDeclaration(property) ==
  CASE property = "fontFamily" -> "font-family"
    [] property = "fontSize" -> "font-size"
    [] OTHER -> "color"

\* The id the binding of a property carries: of a scalar binding, or of the
\* first element of an array binding ("" when there is none).
BoundId(n, property) ==
  IF ~Has(n.boundVariables, property) THEN ""
  ELSE IF Len(n.boundVariables[property].ids) = 0 THEN ""
  ELSE n.boundVariables[property].ids[1]

TokenOf(id) == variableDefs[CHOOSE i \in 1..Len(variableDefs) :
                              variableDefs[i].name = id]

ResolvedAsStated(n, style) ==
  \A property \in BoundProperties :
    \A i \in 1..Len(style) :
      style[i].prop = PropertyDeclaration(property) =>
        IF BoundId(n, property) # ""
             /\ \E k \in 1..Len(variableDefs) :
                  variableDefs[k].name = BoundId(n, property)
        THEN style[i].ref = TokenOf(BoundId(n, property)).cssVar
        ELSE style[i].ref = ""

\* C7 - Design Token Resolver: a bound property whose variable id is in the
\* token table resolves to var(<name of that variable>, <fallback>); with no
\* binding, no id, or an id the table lacks, the fallback comes back as is.
C7_TokenResolver ==
  result.op \in {"compiler", "react-preview", "export-html"} =>
    \A el \in Elements(result.html) :
      NodeOf(el.id).type = "TEXT" => ResolvedAsStated(NodeOf(el.id), el.style)

\* The component names of the bindings that the target does not export.
Unresolvable ==
  {codeConnectMap[i].componentName : i \in 1..Len(codeConnectMap)}
    \ (knownExports \cup {"Body"})

\* The bound composite nodes whose component the target exports.
BoundComposites ==
  {n \in Nodes(figmaData.document) :
     /\ ccHas(n.id)
     /\ ccGet(n.id).componentName \notin Unresolvable
     /\ n.type \in {"FRAME", "GROUP", "INSTANCE", "COMPONENT"}}

RECURSIVE Comps(_)
Comps(comp) ==
  IF comp.kind = "null" THEN {}
  ELSE {comp} \cup UNION {Comps(comp.children[i]) : i \in 1..Len(comp.children)}

\* C8 - A component binding replaces the subtree: the output for a bound
\* composite node is a component binding only, without a style of the
\* node's own and without translated children.
C8_BindingReplacesSubtree ==
  /\ result.op \in {"hydrated", "export-react"} =>
       \A el \in Elements(result.html) :
         el.id \in {n.id : n \in BoundComposites} =>
           el.kind = "component" /\ el.style = <<>> /\ el.children = <<>>
  /\ result.op = "component-tree" =>
       /\ \A c \in Comps(result.tree) :
            c.id \in {n.id : n \in BoundComposites} =>
              c.isDesignSystem /\ c.style = <<>> /\ c.children = <<>>
       /\ \A j \in JsxElements(result.jsx) :
            j.id \in {n.id : n \in BoundComposites} =>
              j.isComponent /\ j.style = <<>> /\ j.children = <<>>

\* C9 - Unresolvable binding: a bound node whose component name the target
\* does not export is rendered structurally on every output path; no path
\* imports that name or emits an element named after it.
C9_NoDanglingComponent ==
  /\ result.op \in {"hydrated", "export-react"} =>
       /\ result.imports \cap Unresolvable = {}
       /\ \A el \in Elements(result.html) :
            el.kind = "component" => el.tag \notin Unresolvable
  /\ result.op = "component-tree" =>
       /\ \A c \in Comps(result.tree) :
            c.isDesignSystem => c.componentName \notin Unresolvable
       /\ \A j \in JsxElements(result.jsx) :
            j.isComponent => j.tag \notin Unresolvable

\* The remap as the README and the contract state it.
StatedSize(value) ==
  CASE value = "xxlarge" -> "2xl" [] value = "xlarge" -> "xl"
    [] value = "large" -> "lg"    [] value = "medium" -> "md"
    [] value = "small" -> "sm"    [] value = "xsmall" -> "xs"
    [] value = "xxsmall" -> "2xs" [] OTHER -> value

StatedColor(value) == IF value = "main" THEN "accent" ELSE value

RemappedAsStated(figmaProps, props) ==
  /\ \A i \in 1..Len(figmaProps) :
       LET key == figmaProps[i][1]
           value == figmaProps[i][2]
       IN CASE key = "size" ->
                 hasProp(props, "data-size")
                   /\ getProp(props, "data-size") = StatedSize(value)
            [] key = "color" ->
                 hasProp(props, "data-color")
                   /\ getProp(props, "data-color") = StatedColor(value)
            [] key \in {"weight", "state"} -> TRUE
            [] OTHER -> hasProp(props, key) /\ getProp(props, key) = value
  /\ \A key \in {"size", "color", "weight", "state"} : ~hasProp(props, key)

\* C10 - Prop remap: the props a bound node's component receives are the
\* binding's props with size and color mapped through the tables into
\* data-size and data-color, weight and state dropped, the rest unchanged.
C10_PropRemap ==
  result.op \in {"hydrated", "export-react"} =>
    \A el \in Elements(result.html) :
      el.kind = "component" => RemappedAsStated(ccGet(el.id).props, el.props)

(***************************************************************************)
(* The server: start() and fetchFigmaData.  A request that awaits is a     *)
(* record [kind, pc, fileKey, fetch, token, used] in reqs; pc names the    *)
(* await it is at, fetch numbers its fetchFigmaData call, token is the     *)
(* token of its body ("" for the GET handlers) and used is the token that  *)
(* the helper it is in has read from the environment for its requests.     *)
(* owner[c] holds the numbers                                              *)
(* of the fetchFigmaData calls that reset or wrote what cache c now holds  *)
(* (0: the constructor).                                                   *)
(***************************************************************************)
Tokens == {"t1", "t2"}

Urls == {"https://www.figma.com/design/KA?node-id=1-1",
         "https://www.figma.com/design/KB?node-id=1-1",
         "https://example.com/KA"}

\* [ok, fileKey, nodeId]; ok = FALSE when parseFigmaUrl throws.
parseFigmaUrl(url) ==
  CASE url = "https://www.figma.com/design/KA?node-id=1-1" ->
         [ok |-> TRUE, fileKey |-> "KA", nodeId |-> "1:1"]
    [] url = "https://www.figma.com/design/KB?node-id=1-1" ->
         [ok |-> TRUE, fileKey |-> "KB", nodeId |-> "1:1"]
    [] OTHER -> [ok |-> FALSE, fileKey |-> "", nodeId |-> ""]

\* The two files of the Figma account.
FileA ==
  [Node(RootId, "FRAME") EXCEPT
     !.layoutMode = "HORIZONTAL",
     !.children =
       <<[Node(ChildId(1), "RECTANGLE") EXCEPT !.fills = <<Fill("IMAGE")>>],
         [Node(ChildId(2), "INSTANCE") EXCEPT
            !.name = Name("Heading"), !.componentId = "C:1",
            !.componentProperties = <<<<"Size", "large">>>>,
            !.children = <<BoundText(Put(EmptyMap, "fontSize",
                                         [isArray |-> FALSE,
                                          ids |-> <<"VariableID:1:7">>]))>>]>>]

FileB ==
  [Node(RootId, "FRAME") EXCEPT
     !.children =
       <<Node(ChildId(1), "VECTOR"),
         [Node(ChildId(2), "RECTANGLE") EXCEPT
            !.name = Name("Promo gif"), !.fills = <<Fill("IMAGE")>>]>>]

getFile(key) == IF key = "KA" THEN FileA ELSE FileB

\* The URL (or SVG text) the API answers for a node of a file.
assetOf(key) == IF key = "KA" THEN "https://cdn/KA" ELSE "https://cdn/KB"

RECURSIVE VisibleNodes(_)
VisibleNodes(node) ==
  IF isHidden(node) THEN {}
  ELSE {node} \cup UNION {VisibleNodes(node.children[i]) :
                            i \in 1..Len(node.children)}

\* collectImageNodes: the ids of the vector, image-fill and video-fill nodes.
collectImageNodes(nodeToScan) ==
  [vectorNodeIds |-> {n.id : n \in {m \in VisibleNodes(nodeToScan) :
                                      m.type \in VectorTypes \cup {"SLICE"}}},
   videoNodes |-> {n.id : n \in {m \in VisibleNodes(nodeToScan) :
                                   hasFillOfType(m, "VIDEO")}},
   imageNodeIds |-> {n.id : n \in {m \in VisibleNodes(nodeToScan) :
                                     /\ hasFillOfType(m, "IMAGE")
                                     /\ ~hasFillOfType(m, "VIDEO")}}]

\* collectBoundVariables finds an id.
hasBoundVariables(nodeToScan) ==
  \E n \in Nodes(nodeToScan) :
    \E property \in DOMAIN n.boundVariables :
      \E i \in 1..Len(n.boundVariables[property].ids) :
        n.boundVariables[property].ids[i] # ""

\* nodeName.includes('gif'), nodeName.includes('video') ...
isGifNode(node) == node.name.label = "Promo gif"

isVideoNode(node) == ~isGifNode(node) /\ node.name.label = "Intro video"

\* What the client's getVariableDefinitions (tool figma_get_variable_defs of
\* the README; mcp-client.js does not carry the method) answers for a file.
getVariableDefinitions(key) ==
  IF key = "KA" THEN <<Def("font-size/10")>> ELSE <<>>

PutAll(m, ids, key) ==
  [x \in (DOMAIN m) \cup ids |-> IF x \in ids THEN assetOf(key) ELSE m[x]]

\* The instance state a continuation of fetchFigmaData works on, with the
\* await it stops at next ("done": fetchFigmaData has returned).
Cur ==
  [variableDefs |-> variableDefs, svgContent |-> svgContent,
   imageUrls |-> imageUrls, videoUrls |-> videoUrls, gifUrls |-> gifUrls,
   codeConnectMap |-> codeConnectMap, tree |-> currentComponentTree,
   owner |-> owner, pc |-> "", token |-> ""]

Reset(S, caches, r) ==
  [S EXCEPT !.owner = [c \in DOMAIN S.owner |->
                         IF c \in caches THEN {r.fetch} ELSE S.owner[c]]]

Wrote(S, caches, r) ==
  [S EXCEPT !.owner = [c \in DOMAIN S.owner |->
                         IF c \in caches THEN S.owner[c] \cup {r.fetch}
                         ELSE S.owner[c]]]

\* fetchCodeConnectMappings up to its first request.
enterCodeConnect(S, r) ==
  IF envToken = "" THEN [S EXCEPT !.pc = "done"]
  ELSE LET fresh == [Reset(S, {"codeConnectMap"}, r) EXCEPT
                       !.token = envToken,
                       !.codeConnectMap = <<>>,
                       !.tree = IF S.tree.shared
                                THEN [S.tree EXCEPT
                                        !.shared = FALSE,
                                        !.codeConnectMappings = S.codeConnectMap]
                                ELSE S.tree]
       IN IF collectComponentNodes(getFile(r.fileKey)) = <<>>
          THEN [fresh EXCEPT !.pc = "done"]
          ELSE [fresh EXCEPT !.pc = "codeConnect"]

\* fetchImageUrls up to its first request.
enterImageUrls(S, r) ==
  IF envToken = "" THEN enterCodeConnect(S, r)
  ELSE LET fresh == [Reset(S, {"svgContent", "imageUrls", "videoUrls"}, r)
                     EXCEPT !.token = envToken,
                            !.svgContent = EmptyMap, !.imageUrls = EmptyMap,
                            !.videoUrls = EmptyMap]
       IN IF collectImageNodes(getFile(r.fileKey)).vectorNodeIds # {}
          THEN [fresh EXCEPT !.pc = "svg"]
          ELSE [fresh EXCEPT !.pc = "assets"]

\* fetchVariableDefinitions up to its request.
enterVariableDefinitions(S, r) ==
  LET fresh == [Reset(S, {"variableDefs"}, r) EXCEPT !.variableDefs = <<>>]
  IN IF hasBoundVariables(getFile(r.fileKey))
     THEN [fresh EXCEPT !.pc = "variables"]
     ELSE enterImageUrls(fresh, r)

\* this.variableDefs[varName] = {...}
putDef(defs, def) ==
  IF \E i \in 1..Len(defs) : defs[i].name = def.name
  THEN [i \in 1..Len(defs) |-> IF defs[i].name = def.name THEN def ELSE defs[i]]
  ELSE Append(defs, def)

RECURSIVE putDefs(_, _, _)
putDefs(defs, new, i) ==
  IF i > Len(new) THEN defs ELSE putDefs(putDef(defs, new[i]), new, i + 1)

RECURSIVE putMappings(_, _, _)
putMappings(map, new, i) ==
  IF i > Len(new) THEN map
  ELSE putMappings(
         IF \E k \in 1..Len(map) : map[k].nodeId = new[i].nodeId
         THEN [k \in 1..Len(map) |->
                 IF map[k].nodeId = new[i].nodeId THEN new[i] ELSE map[k]]
         ELSE Append(map, new[i]),
         new, i + 1)

\* The handler's own continuation once fetchFigmaData has returned, and the
\* new state of the instance.
Install(S, r) ==
  /\ variableDefs' = S.variableDefs
  /\ svgContent' = S.svgContent
  /\ imageUrls' = S.imageUrls
  /\ videoUrls' = S.videoUrls
  /\ gifUrls' = S.gifUrls
  /\ codeConnectMap' = S.codeConnectMap
  /\ currentComponentTree' = S.tree
  /\ rendered' = {}
  /\ IF S.pc = "done"
     THEN /\ figmaData' = Loaded(getFile(r.fileKey))
          /\ owner' = [S.owner EXCEPT !["figmaData"] = {r.fetch}]
          /\ reqs' = reqs \ {r}
          /\ result' = [NoResult EXCEPT !.op = r.kind, !.status = 200]
     ELSE /\ figmaData' = figmaData
          /\ owner' = S.owner
          /\ reqs' = (reqs \ {r}) \cup
                       {[r EXCEPT !.pc = S.pc,
                                  !.used = IF S.token = "" THEN r.used
                                           ELSE S.token]}
          /\ result' = result
  /\ UNCHANGED <<client, tokens, currentUrl, fileKey, nodeId, envToken, fetchSeq>>

\* fetchFigmaData(key, id) up to its first await.
StartFetch(kind, key, token) ==
  /\ Cardinality(reqs) < MaxRequests
  /\ fetchSeq < MaxFetches
  /\ fetchSeq' = fetchSeq + 1
  /\ reqs' = reqs \cup {[kind |-> kind, pc |-> "getFile", fileKey |-> key,
                         fetch |-> fetchSeq + 1, token |-> token,
                         used |-> ""]}

Respond(op, status) ==
  /\ result' = [NoResult EXCEPT !.op = op, !.status = status]
  /\ UNCHANGED <<client, tokens, figmaData, currentUrl, fileKey, nodeId, instance,
                 currentComponentTree, reqs, fetchSeq, owner, rendered>>

\* POST /api/compile
PostCompile ==
  \E url \in Urls \cup {""}, token \in tokens \cup {""} :
    IF url = "" \/ token = ""
    THEN Respond("compile", 400) /\ envToken' = envToken
    ELSE IF ~parseFigmaUrl(url).ok
    THEN Respond("compile", 500) /\ envToken' = token
    ELSE /\ envToken' = token
         /\ fileKey' = parseFigmaUrl(url).fileKey
         /\ nodeId' = parseFigmaUrl(url).nodeId
         /\ currentUrl' = url
         /\ StartFetch("compile", parseFigmaUrl(url).fileKey, token)
         /\ UNCHANGED <<client, tokens, figmaData, instance, currentComponentTree, owner,
                        result, rendered>>

\* POST /api/refresh
PostApiRefresh ==
  \E token \in tokens \cup {""} :
    IF fileKey = "" \/ token = ""
    THEN Respond("api-refresh", 400) /\ envToken' = envToken
    ELSE /\ envToken' = token
         /\ StartFetch("api-refresh", fileKey, token)
         /\ UNCHANGED <<client, tokens, figmaData, currentUrl, fileKey, nodeId, instance,
                        currentComponentTree, owner, result, rendered>>

\* GET /refresh
GetRefresh ==
  IF ~figmaData.present
  THEN Respond("refresh", 400) /\ envToken' = envToken
  ELSE /\ StartFetch("refresh", fileKey, "")
       /\ UNCHANGED <<client, tokens, figmaData, currentUrl, fileKey, nodeId, envToken,
                      instance, currentComponentTree, owner, result, rendered>>

\* GET /load
GetLoad ==
  \E url \in Urls \cup {""} :
    IF url = "" \/ ~parseFigmaUrl(url).ok
    THEN Respond("load", IF url = "" THEN 400 ELSE 500) /\ envToken' = envToken
    ELSE /\ fileKey' = parseFigmaUrl(url).fileKey
         /\ nodeId' = parseFigmaUrl(url).nodeId
         /\ currentUrl' = url
         /\ StartFetch("load", parseFigmaUrl(url).fileKey, "")
         /\ UNCHANGED <<client, tokens, figmaData, envToken, instance, currentComponentTree,
                        owner, result, rendered>>

\* mcpClient.getFile answers.
GotFile ==
  \E r \in reqs :
    /\ r.pc = "getFile"
    /\ Install(enterVariableDefinitions(Cur, r), r)

\* mcpClient.getFile throws: fetchFigmaData rethrows, the handler sends 500.
FileFailed ==
  \E r \in reqs :
    /\ r.pc = "getFile"
    /\ reqs' = reqs \ {r}
    /\ result' = [NoResult EXCEPT !.op = r.kind, !.status = 500]
    /\ UNCHANGED <<client, tokens, figmaData, currentUrl, fileKey, nodeId, instance,
                   currentComponentTree, envToken, fetchSeq, owner, rendered>>

\* mcpClient.getVariableDefinitions answers, or throws and is caught.
GotVariables ==
  \E r \in reqs, answered \in BOOLEAN :
    /\ r.pc = "variables"
    /\ LET S == IF answered /\ getVariableDefinitions(r.fileKey) # <<>>
                THEN [Wrote(Cur, {"variableDefs"}, r) EXCEPT
                        !.variableDefs =
                          putDefs(variableDefs,
                                  getVariableDefinitions(r.fileKey), 1)]
                ELSE Cur
       IN Install(enterImageUrls(S, r), r)

\* The SVG texts of the vector nodes have arrived.
GotSvg ==
  \E r \in reqs :
    /\ r.pc = "svg"
    /\ Install([Wrote(Cur, {"svgContent"}, r) EXCEPT
                  !.svgContent =
                    PutAll(svgContent,
                           collectImageNodes(getFile(r.fileKey)).vectorNodeIds,
                           r.fileKey),
                  !.pc = "assets"], r)

\* The file's asset list has arrived.
GotAssets ==
  \E r \in reqs :
    /\ r.pc = "assets"
    /\ IF collectImageNodes(getFile(r.fileKey)).imageNodeIds # {}
       THEN Install([Cur EXCEPT !.pc = "png"], r)
       ELSE Install(enterCodeConnect(Cur, r), r)

\* The rendered images of the image-fill nodes have arrived.
GotPng ==
  \E r \in reqs :
    /\ r.pc = "png"
    /\ LET nodes == {n \in VisibleNodes(getFile(r.fileKey)) :
                       n.id \in collectImageNodes(getFile(r.fileKey)).imageNodeIds}
           gifs == {n.id : n \in {m \in nodes : isGifNode(m)}}
           videos == {n.id : n \in {m \in nodes : isVideoNode(m)}}
           images == {n.id : n \in nodes} \ (gifs \cup videos)
           touched == (IF gifs # {} THEN {"gifUrls"} ELSE {})
                        \cup (IF videos # {} THEN {"videoUrls"} ELSE {})
                        \cup (IF images # {} THEN {"imageUrls"} ELSE {})
       IN Install(enterCodeConnect(
                    [Wrote(Cur, touched, r) EXCEPT
                       !.gifUrls = PutAll(gifUrls, gifs, r.fileKey),
                       !.videoUrls = PutAll(videoUrls, videos, r.fileKey),
                       !.imageUrls = PutAll(imageUrls, images, r.fileKey)], r), r)

\* The nodes of the component instances have arrived.
GotCodeConnect ==
  \E r \in reqs :
    /\ r.pc = "codeConnect"
    /\ Install([Wrote(Cur, {"codeConnectMap"}, r) EXCEPT
                  !.codeConnectMap =
                    putMappings(codeConnectMap,
                                codeConnectMappingsOf(getFile(r.fileKey), AllIds),
                                1),
                  !.pc = "done"], r)

InitServer ==
  /\ figmaData = NoData
  /\ currentUrl = ""
  /\ fileKey = ""
  /\ nodeId = ""
  /\ imageUrls = EmptyMap
  /\ svgContent = EmptyMap
  /\ videoUrls = EmptyMap
  /\ gifUrls = EmptyMap
  /\ variableDefs = <<>>
  /\ codeConnectMap = <<>>
  /\ currentComponentTree = NoTree
  /\ envToken \in {"", "t1"}
  /\ reqs = {}
  /\ fetchSeq = 0
  /\ owner = [c \in Caches \cup {"figmaData"} |-> {0}]
  /\ result = NoResult
  /\ rendered = {}
  /\ client = NewClient(DefaultUrl, FALSE, FALSE, TRUE)
  /\ tokens = {"t1"}

NextServer ==
  \/ PostCompile
  \/ PostApiRefresh
  \/ GetRefresh
  \/ GetLoad
  \/ GotFile
  \/ FileFailed
  \/ GotVariables
  \/ GotSvg
  \/ GotAssets
  \/ GotPng
  \/ GotCodeConnect
  \/ GetCompiler
  \/ GetReactPreview
  \/ GetExportHtml
  \/ GetExportReact
  \/ GetReactBundle

SpecServer == InitServer /\ [][NextServer]_vars

\* Two users with a token each post to the server; what the page views do
\* sends nothing to the Figma API and is left out.
InitTokens ==
  /\ figmaData = NoData
  /\ currentUrl = ""
  /\ fileKey = ""
  /\ nodeId = ""
  /\ imageUrls = EmptyMap
  /\ svgContent = EmptyMap
  /\ videoUrls = EmptyMap
  /\ gifUrls = EmptyMap
  /\ variableDefs = <<>>
  /\ codeConnectMap = <<>>
  /\ currentComponentTree = NoTree
  /\ envToken \in {"", "t1"}
  /\ reqs = {}
  /\ fetchSeq = 0
  /\ owner = [c \in Caches \cup {"figmaData"} |-> {0}]
  /\ result = NoResult
  /\ rendered = {}
  /\ client = NewClient(DefaultUrl, FALSE, FALSE, TRUE)
  /\ tokens = Tokens

NextTokens ==
  \/ PostCompile
  \/ PostApiRefresh
  \/ GotFile
  \/ FileFailed
  \/ GotVariables
  \/ GotSvg
  \/ GotAssets
  \/ GotPng
  \/ GotCodeConnect

SpecTokens == InitTokens /\ [][NextTokens]_vars

\* C3 - Snapshot handover: a translation reads asset, token and binding
\* caches that the fetchFigmaData call of the design it renders has filled,
\* and no cache that another call has reset or written.
C3_SnapshotHandover ==
  /\ result.op \in {"compiler", "react-preview", "export-html", "export-react"}
  /\ result.status = 200
  /\ result.readFrom["figmaData"] # {0}
  => \A c \in {"variableDefs", "svgContent", "imageUrls", "videoUrls",
               "codeConnectMap"} :
       result.readFrom[c] \subseteq {0} \cup result.readFrom["figmaData"]

(***************************************************************************)
(* Properties of the text, media and paint resolvers.                      *)
(***************************************************************************)
\* The tag the thresholds give for a font size (hundredths) and a weight.
StatedTag(fontSize, fontWeight) ==
  IF fontSize >= 4800 \/ (fontSize >= 3200 /\ fontWeight >= 600) THEN "h1"
  ELSE IF fontSize >= 3200 \/ (fontSize >= 2400 /\ fontWeight >= 600) THEN "h2"
  ELSE IF fontSize >= 2400 \/ (fontSize >= 1800 /\ fontWeight >= 600) THEN "h3"
  ELSE "p"

TagAsStated(id, tag) ==
  LET node == NodeOf(id)
  IN node.type = "TEXT" => tag = StatedTag(node.style.fontSize, node.style.fontWeight)

\* C11 - Tag inference: the tag of every text node's output, in the server's
\* HTML, in the component tree and in the engine, is the one the thresholds
\* on fontSize and fontWeight give, whatever the node's name.
C11_TagInference ==
  /\ result.op \in HtmlOps =>
       \A el \in Elements(result.html) : el.kind = "el" => TagAsStated(el.id, el.tag)
  /\ result.op = "component-tree" =>
       \A c \in Comps(result.tree) : ~c.isDesignSystem => TagAsStated(c.id, c.tag)
  /\ result.op = "engine-text" => TagAsStated(result.node, result.tag)

\* The classification the node's name gives: "direct", "app" or "".
StatedLottie(node) ==
  IF node.name.host \in DirectLottieHosts /\ node.name.ext \in {"json", "lottie"}
  THEN "direct"
  ELSE IF node.name.host = "app.lottiefiles.com" THEN "app" ELSE ""

IsPlayer(el) == el.tag = "dotlottie-wc"

IsPlaceholder(el) == el.tag = "div" /\ el.variant = "lottie-placeholder"

\* C12 - Lottie classification: the element of a node whose name carries a
\* direct Lottie URL is a lottie player of that URL, and the element of a node
\* whose name carries an app.lottiefiles.com URL is the placeholder, whatever
\* the URL ends with.
C12_LottieClassification ==
  result.op \in {"compiler", "react-preview", "export-html"} =>
    \A el \in Elements(result.html) :
      LET node == NodeOf(el.id) IN
      /\ StatedLottie(node) = "direct" => IsPlayer(el) /\ el.src.host = node.name.host
                                           /\ el.src.ext = node.name.ext
      /\ StatedLottie(node) = "app" => IsPlaceholder(el)

IsLottie(el) == IsPlayer(el) \/ IsPlaceholder(el)

IsPoster(el) == el.variant \in {"gif-container", "video-container"}

\* C13 - Media priority: whatever the node's type, a name that carries a Lottie
\* URL makes its element a lottie one; a gif or video container is emitted only
\* for a node without a Lottie URL, an image only for a node that is neither
\* lottie nor gif nor video, and an inline vector only when none of these and
\* no image fill applies.
C13_MediaPriority ==
  result.op \in {"compiler", "react-preview", "export-html"} =>
    \A el \in Elements(result.html) :
      LET node == NodeOf(el.id) IN
      /\ hasLottieFill(node) => IsLottie(el)
      /\ IsPoster(el) => ~hasLottieFill(node)
      /\ el.tag = "img" =>
           ~hasLottieFill(node) /\ ~hasGifFill(node) /\ ~hasVideoFill(node)
      /\ el.tag = "svg" =>
           /\ ~hasLottieFill(node) /\ ~hasGifFill(node) /\ ~hasVideoFill(node)
           /\ ~(hasImageFill(node) /\ getImageUrl(node.id) # "")

RecognizedTypes ==
  {"FRAME", "RECTANGLE", "TEXT", "GROUP", "ELLIPSE", "LINE", "INSTANCE",
   "COMPONENT"} \cup VectorTypes

\* The element is a plain container around the translations of all the
\* node's children, in their order (a hidden child translates to nothing).
GenericContainer(el, node) ==
  /\ el.kind = "el" /\ el.tag = "div"
  /\ Len(el.children) = Len(node.children)
  /\ \A i \in 1..Len(node.children) :
       IF isHidden(node.children[i]) THEN el.children[i].kind = "empty"
       ELSE el.children[i].kind = "el" /\ el.children[i].id = node.children[i].id

\* C14 - Unknown node type: the walker answers for a design that holds nodes of
\* an unrecognized type, and every such node that is reached is rendered as a
\* generic container around the translations of all its children.
C14_UnknownType ==
  result.op \in {"compiler", "react-preview", "export-html"} =>
    /\ result.status = 200
    /\ \A el \in Elements(result.html) :
         NodeOf(el.id).type \notin RecognizedTypes =>
           GenericContainer(el, NodeOf(el.id))

C14_Witness ==
  /\ result.op = "compiler"
  /\ \E el \in Elements(result.html) :
       /\ NodeOf(el.id).type \notin RecognizedTypes
       /\ el.depth > 0
       /\ \E i \in 1..Len(el.children) : el.children[i].kind = "el"
  /\ \E el \in Elements(result.html) :
       /\ NodeOf(el.id).type \notin RecognizedTypes
       /\ Len(el.children) = 2
       /\ el.children[1].kind = "empty" /\ el.children[2].kind = "el"

(***************************************************************************)
(* Properties of the paints: background, gradient and border.              *)
(***************************************************************************)
\* The value of the last declaration of a property in a style ("" if none).
LastDeclared(style, prop) ==
  LET at == {i \in 1..Len(style) : style[i].prop = prop}
  IN IF at = {} THEN "" ELSE style[CHOOSE i \in at : \A j \in at : j <= i].kw

FromBackgroundColor(node, style) ==
  node.backgroundColor # ""
    /\ Contains(style, D("background-color", node.backgroundColor, 0))

\* A node with fills and a backgroundColor takes its background from the
\* fills: the backgroundColor contributes no declaration, and a solid first
\* visible fill is the background colour in effect.
FillsFirst(node, style) ==
  (Len(node.fills) > 0 /\ node.backgroundColor # "") =>
    /\ ~FromBackgroundColor(node, style)
    /\ \A i \in {firstFill(node, FALSE)} \ {0} :
         node.fills[i].type = "SOLID" =>
           LastDeclared(style, "background-color") = node.fills[i].color

\* C15 - Fills over the legacy backgroundColor: in the page of the server and
\* in the style of the engine, a node with both fills and a backgroundColor
\* takes its background from the fills and gets no declaration from
\* backgroundColor; backgroundColor is used only when fills is empty.
C15_FillsOverBackgroundColor ==
  /\ result.op \in {"compiler", "react-preview", "export-html"} =>
       \A el \in Elements(result.html) : FillsFirst(NodeOf(el.id), el.style)
  /\ result.op = "engine" => FillsFirst(NodeOf(result.node), result.style)

\* The angle stated for a linear gradient from start to end, in degrees:
\* 90 plus the angle of the vector, rounded to the nearest integer; spelled out
\* for the four unit vectors along the axes.
StatedAngle(start, end) ==
  LET v == <<end[1] - start[1], end[2] - start[2]>>
  IN CASE v = <<1, 0>> -> 90
       [] v = <<0, 1>> -> 180
       [] v = <<-1, 0>> -> 270
       [] v = <<0, -1>> -> 0
       [] OTHER -> (9000 + atan2Deg(v[2], v[1]) + 50) \div 100

\* The first visible fill of the node is a linear gradient with stops and with
\* two handles.
LinearFill(node) ==
  /\ firstFill(node, FALSE) # 0
  /\ node.fills[firstFill(node, FALSE)].type = "GRADIENT_LINEAR"
  /\ node.fills[firstFill(node, FALSE)].hasStops
  /\ Len(node.fills[firstFill(node, FALSE)].gradientHandlePositions) >= 2

AngleAsStated(node, style) ==
  LinearFill(node) =>
    LET handles == node.fills[firstFill(node, FALSE)].gradientHandlePositions
    IN Contains(style, D("background", "linear-gradient",
                         StatedAngle(handles[1], handles[2])))

\* C16 - Gradient angle: a linear gradient from start to end is declared with
\* the angle round(90 + atan2(end.y - start.y, end.x - start.x) in degrees), in
\* the page of the server and in the style of the engine; the unit vectors to
\* the right, down, left and up give 90, 180, 270 and 0 degrees.
C16_GradientAngle ==
  /\ result.op \in {"compiler", "react-preview", "export-html"} =>
       \A el \in Elements(result.html) :
         (el.tag = "div" /\ NodeOf(el.id).type \in PaintedTypes) =>
           AngleAsStated(NodeOf(el.id), el.style)
  /\ result.op = "engine" => AngleAsStated(NodeOf(result.node), result.style)

C16_Witness ==
  /\ result.op = "compiler"
  /\ \E el \in Elements(result.html) :
       /\ LinearFill(NodeOf(el.id))
       /\ NodeOf(el.id).fills[firstFill(NodeOf(el.id), FALSE)].gradientHandlePositions
            = <<<<0, 0>>, <<-1, 0>>>>
       /\ Contains(el.style, D("background", "linear-gradient", 270))

(***************************************************************************)
(* The walker as a function of its input.                                  *)
(***************************************************************************)
Tables == <<imageUrls, svgContent, videoUrls, gifUrls, variableDefs,
            codeConnectMap>>

\* What the walker emits for a node is settled by the node, the tables and
\* the flag of its parent (depth only counts the indentation).
OnlyFlagThreaded(out) ==
  \A el \in Elements(out) :
    \E parentHasAutoLayout \in BOOLEAN :
      el = translateNodeToHTML(NodeOf(el.id), el.depth, parentHasAutoLayout)

MalformedGradient(node) ==
  /\ firstFill(node, FALSE) # 0
  /\ node.fills[firstFill(node, FALSE)].type \in GradientTypes
  /\ \/ ~node.fills[firstFill(node, FALSE)].hasStops
     \/ Len(node.fills[firstFill(node, FALSE)].gradientHandlePositions) < 2

\* C18 - Malformed gradient: a node whose gradient fill lacks its stops or has
\* fewer than two handle positions gets no 'background' declaration, in the
\* page of the server and in the style of the engine, and the engine does not
\* throw on it.
C18_MalformedGradient ==
  /\ result.op \in {"compiler", "react-preview", "export-html"} =>
       \A el \in Elements(result.html) :
         MalformedGradient(NodeOf(el.id)) => ~Declares(el.style, "background")
  /\ result.op = "engine" =>
       (MalformedGradient(NodeOf(result.node)) =>
          ~Declares(result.style, "background"))
  /\ result.op = "engine-threw" => ~MalformedGradient(NodeOf(result.node))

\* The node needs an asset of its own: an image or video fill, or a vector.
NeedsAsset(node) ==
  hasImageFill(node) \/ hasFillOfType(node, "VIDEO") \/ node.type \in VectorTypes

\* No declaration of an image and no src of the element is built from an
\* asset that is not there.
NoMissingAsset(el) ==
  /\ \A i \in 1..Len(el.style) :
       el.style[i].prop = "background-image" => el.style[i].kw # ""
  /\ el.tag = "img" => el.src # NoUrl

\* C19 - Missing asset: a shown node that needs an image, SVG, video or gif
\* still has its element in the page, and no element carries a background-image
\* or a src made from an asset the cache does not hold, a node with a VIDEO
\* fill and no resolved video URL included.
C19_MissingAsset ==
  result.op \in {"compiler", "react-preview", "export-html"} =>
    /\ result.status = 200
    /\ \A node \in Nodes(figmaData.document) :
         (NeedsAsset(node) /\ node.id \notin PrunedIds(figmaData.document, FALSE)) =>
           \E el \in Elements(result.html) : el.id = node.id
    /\ \A el \in Elements(result.html) : NoMissingAsset(el)

\* The first visible stroke of the node that is solid (0 if none).
FirstSolidStroke(node) ==
  LET solid == {i \in 1..Len(node.strokes) :
                  node.strokes[i].visible /\ node.strokes[i].type = "SOLID"}
  IN IF solid = {} THEN 0 ELSE SetMin(solid)

\* A node with a stroke weight has the border of its first visible solid
\* stroke, and no border when no visible stroke is solid.
BorderAsStated(node, style) ==
  node.strokeWeight # 0 =>
    IF FirstSolidStroke(node) # 0
    THEN Contains(style, D("border", node.strokes[FirstSolidStroke(node)].color,
                           HalfUp(node.strokeWeight)))
    ELSE ~Declares(style, "border")

\* C20 - Stroke: the border of a node is that of its first visible stroke that
\* is solid, a gradient or image stroke before it being skipped, and a node
\* without a visible solid stroke has no border; in the page of the server and
\* in the style of the engine.
C20_Stroke ==
  /\ result.op \in {"compiler", "react-preview", "export-html"} =>
       \A el \in Elements(result.html) :
         (el.tag = "div" /\ NodeOf(el.id).type \in {"RECTANGLE", "ELLIPSE"}) =>
           BorderAsStated(NodeOf(el.id), el.style)
  /\ result.op = "engine" => BorderAsStated(NodeOf(result.node), result.style)

(***************************************************************************)
(* Properties of effects, text metrics and the threading of the walker.    *)
(***************************************************************************)
\* The declaration stated for an effect of each of the four types.
StatedEffect(effect) ==
  CASE effect.type = "DROP_SHADOW" -> D("box-shadow", "", 0)
    [] effect.type = "INNER_SHADOW" -> D("box-shadow", "inset", 0)
    [] effect.type = "LAYER_BLUR" -> D("filter", "blur", 0)
    [] OTHER -> D("backdrop-filter", "blur", 0)

EffectProps == {"box-shadow", "filter", "backdrop-filter"}

\* The effect declarations of the style are those of the effects, one each
\* and in the order of the array.
EffectsAsStated(node, style) ==
  LET isEffect(decl) == decl.prop \in EffectProps
  IN SelectSeq(style, isEffect)
       = [i \in 1..Len(node.effects) |-> StatedEffect(node.effects[i])]

\* C21 - Effects: every drop shadow, inner shadow, layer blur and background
\* blur of a node yields exactly one declaration of its kind, and the
\* declarations stand in the style in the order of the effects array.
C21_Effects ==
  /\ result.op \in {"compiler", "react-preview", "export-html"} =>
       \A el \in Elements(result.html) :
         (el.tag = "div" /\ NodeOf(el.id).type \in {"FRAME", "RECTANGLE"}) =>
           EffectsAsStated(NodeOf(el.id), el.style)
  /\ result.op = "engine" => EffectsAsStated(NodeOf(result.node), result.style)

\* The flag every element of an output was translated with, the root having
\* received `flag`: the walk of translateNodeToHTML over the emitted tree.
RECURSIVE flagsReceived(_, _)
flagsReceived(out, flag) ==
  IF out.kind = "empty" THEN {}
  ELSE {<<out.id, flag>>}
         \cup UNION {flagsReceived(out.children[i], childFlag(NodeOf(out.id), flag)) :
                       i \in 1..Len(out.children)}

\* C22 - Auto-Layout context threading: every child the walker recursed into
\* received, as parentHasAutoLayout, whether its parent node has a layoutMode,
\* whatever the type of the parent (frame, group, instance, unknown type).
C22_ContextThreading ==
  result.op \in {"compiler", "react-preview", "export-html"} =>
    \A el \in Elements(result.html) :
      \A i \in 1..Len(el.children) :
        el.children[i].kind # "empty" =>
          <<el.children[i].id, NodeOf(el.id).layoutMode # "">>
             \in flagsReceived(result.html, FALSE)

\* The line height stated for a text style: the percentage of the font size,
\* else the percentage, else the pixel value; "" when it has none of them.
StatedLineHeight(style) ==
  CASE ~style.present -> [unit |-> "", of |-> 0]
    [] style.lineHeightPercentFontSize # 0 ->
         [unit |-> "%", of |-> style.lineHeightPercentFontSize]
    [] style.lineHeightPercent # 0 -> [unit |-> "%", of |-> style.lineHeightPercent]
    [] style.lineHeightPx # 0 -> [unit |-> "px", of |-> style.lineHeightPx]
    [] OTHER -> [unit |-> "", of |-> 0]

LineHeightAsStated(node, style) ==
  LET at == {i \in 1..Len(style) : style[i].prop = "line-height"}
      stated == StatedLineHeight(node.style)
  IN /\ Cardinality(at) <= 1
     /\ at = {} <=> stated.unit = ""
     /\ \A i \in at :
          /\ style[i].kw = stated.unit
          /\ stated.unit = "%" => style[i].n = stated.of
          /\ stated.unit = "px" => style[i].n \in {stated.of, HalfUp(stated.of)}

\* C23 - Line-height precedence: a text node gets at most one line-height
\* declaration, from the percentage of the font size if it has one, else from
\* the percentage, else from the pixel value; in the page of the server and
\* in the engine.
C23_LineHeightPrecedence ==
  /\ result.op \in {"compiler", "react-preview", "export-html"} =>
       \A el \in Elements(result.html) :
         NodeOf(el.id).type = "TEXT" => LineHeightAsStated(NodeOf(el.id), el.style)
  /\ result.op = "engine-text" =>
       LineHeightAsStated(NodeOf(result.node), result.style)

\* The text of a heading: the node itself if it is a text, else its first
\* text child (the node itself when it has none).
HeadingText(node) ==
  IF node.type = "TEXT" THEN node
  ELSE LET at == {i \in 1..Len(node.children) : node.children[i].type = "TEXT"}
       IN IF at = {} THEN node ELSE node.children[SetMin(at)]

\* C24 - Heading level: a node bound to the Heading component whose text was
\* rendered with a heading tag hN gives the component the level N.
C24_HeadingLevel ==
  result.op = "hydrated" =>
    \A el \in Elements(result.html) :
      (el.kind = "component" /\ ccGet(el.id).componentName = "Heading") =>
        LET text == HeadingText(NodeOf(el.id))
        IN (text.type = "TEXT" /\ levelMatch(getTextTag(text)) # "") =>
             /\ hasProp(el.props, "level")
             /\ getProp(el.props, "level") = levelMatch(getTextTag(text))

(***************************************************************************)
(* FigmaMCPClient (src/mcp-client.js).  connect() and callTool() are async: *)
(* each step below runs up to the next await.  One connect() and one       *)
(* callTool() may be in flight, and disconnect() may run between any two   *)
(* steps.  envToken is process.env.FIGMA_ACCESS_TOKEN.                     *)
(***************************************************************************)
Tools == {"figma_get_file", "figma_get_styles", "figma_get_component"}

ClientUrls == {"", DefaultUrl}

InitClient ==
  /\ figmaData = NoData
  /\ currentUrl = ""
  /\ fileKey = ""
  /\ nodeId = ""
  /\ imageUrls = EmptyMap
  /\ svgContent = EmptyMap
  /\ videoUrls = EmptyMap
  /\ gifUrls = EmptyMap
  /\ variableDefs = <<>>
  /\ codeConnectMap = <<>>
  /\ currentComponentTree = NoTree
  /\ envToken \in {"", "t1"}
  /\ reqs = {}
  /\ fetchSeq = 0
  /\ owner = [c \in Caches \cup {"figmaData"} |-> {0}]
  /\ result = NoResult
  /\ rendered = {}
  /\ \E url \in ClientUrls, useMock, mcpUp, apiUp \in BOOLEAN :
       client = NewClient(url, useMock, mcpUp, apiUp)
  /\ tokens = {"t1"}

compiler == <<figmaData, currentUrl, fileKey, nodeId, instance,
              currentComponentTree, envToken, reqs, fetchSeq, owner, result,
              rendered, tokens>>

\* What a step leaves behind: its name, the tool, what the call returned or
\* threw ("" while it awaits) and whether the step sent an HTTP request.
Did(c, did, tool, outcome, requested) ==
  [c EXCEPT !.did = did, !.tool = tool, !.outcome = outcome,
            !.requested = requested]

\* The end of connect(): mode tells how it ended.
Connected(c, useDirectAPI, mode) ==
  Did([c EXCEPT !.connected = TRUE, !.useDirectAPI = useDirectAPI,
                !.connecting = "", !.mode = mode], "connect", "", mode, FALSE)

\* connect() up to the fetch of _testMCPConnection.
Connect ==
  /\ client.connecting = ""
  /\ client' = IF client.useMock
               THEN Connected(client, FALSE, "mock-env")
               ELSE Did([client EXCEPT !.connecting = "mcp"],
                        "connect", "", "", TRUE)
  /\ UNCHANGED compiler

\* _testMCPConnection has answered or thrown; on a throw, _testDirectAPI up
\* to its fetch (it throws at once without a token).
TestedMCP ==
  /\ client.connecting = "mcp"
  /\ client' = IF client.url # "" /\ client.mcpUp
               THEN Connected(client, FALSE, "mcp")
               ELSE IF envToken = ""
               THEN Connected(client, FALSE, "mock")
               ELSE Did([client EXCEPT !.connecting = "api"],
                        "connect", "", "", TRUE)
  /\ UNCHANGED compiler

\* _testDirectAPI has answered or thrown.
TestedDirectAPI ==
  /\ client.connecting = "api"
  /\ client' = IF client.apiUp
               THEN Connected(client, TRUE, "api")
               ELSE Connected(client, FALSE, "mock")
  /\ UNCHANGED compiler

\* _callDirectAPI up to its fetch, called from the try block (pc "direct")
\* or from the catch block (pc "fallback") of callTool, whose throw goes to
\* the caller.
callDirectAPI(c, tool, pc) ==
  IF envToken = "" \/ tool \notin {"figma_get_file", "figma_get_styles"}
  THEN Did([c EXCEPT !.call = NoCall], "call", tool, "threw", FALSE)
  ELSE Did([c EXCEPT !.call = [tool |-> tool, pc |-> pc]],
           "call", tool, "", TRUE)

\* The catch block of callTool.
catchError_anyTool(c, tool) ==
  IF ~c.useDirectAPI
  THEN callDirectAPI([c EXCEPT !.useDirectAPI = TRUE], tool, "fallback")
  ELSE Did([c EXCEPT !.call = NoCall], "call", tool, "threw", FALSE)

catchError(c, tool) ==
  IF ~c.useDirectAPI /\ tool = "figma_get_file"
  THEN callDirectAPI([c EXCEPT !.useDirectAPI = TRUE], tool, "fallback")
  ELSE Did([c EXCEPT !.call = NoCall], "call", tool, "threw", FALSE)

\* callTool(toolName, params) up to its first await.
CallTool ==
  /\ client.call = NoCall
  /\ \E tool \in Tools :
       LET c == [client EXCEPT !.invokedIn = client.mode] IN
       client' =
         IF ~c.connected
         THEN Did(c, "call", tool, "not-connected", FALSE)
         ELSE IF c.useDirectAPI
         THEN IF envToken = ""
                 \/ tool \notin {"figma_get_file", "figma_get_styles"}
              THEN catchError(c, tool)
              ELSE callDirectAPI(c, tool, "direct")
         ELSE IF c.useMock \/ c.url = ""
         THEN Did(c, "call", tool, "mock", FALSE)
         ELSE Did([c EXCEPT !.call = [tool |-> tool, pc |-> "mcp"]],
                  "call", tool, "", TRUE)
  /\ UNCHANGED compiler

\* The fetch of _callMCPTool has answered: a result, or an error.
CalledMCP ==
  /\ client.call.pc = "mcp"
  /\ \E ok \in {TRUE, FALSE} :
       /\ ok => client.mcpUp
       /\ client' = IF ok
                    THEN Did([client EXCEPT !.call = NoCall],
                             "call", client.call.tool, "mcp", FALSE)
                    ELSE catchError(client, client.call.tool)
  /\ UNCHANGED compiler

\* The fetch of _callDirectAPI has answered: the data, or an error.
CalledDirectAPI ==
  /\ client.call.pc \in {"direct", "fallback"}
  /\ \E ok \in {TRUE, FALSE} :
       /\ ok => client.apiUp
       /\ client' = IF ok
                    THEN Did([client EXCEPT !.call = NoCall],
                             "call", client.call.tool, "direct", FALSE)
                    ELSE IF client.call.pc = "direct"
                    THEN catchError(client, client.call.tool)
                    ELSE Did([client EXCEPT !.call = NoCall],
                             "call", client.call.tool, "threw", FALSE)
  /\ UNCHANGED compiler

\* disconnect()
Disconnect ==
  /\ client' = IF client.connected
               THEN Did([client EXCEPT !.connected = FALSE,
                                       !.useDirectAPI = FALSE, !.mode = ""],
                        "disconnect", "", "", FALSE)
               ELSE Did(client, "disconnect", "", "", FALSE)
  /\ UNCHANGED compiler

NextClient ==
  \/ Connect
  \/ TestedMCP
  \/ TestedDirectAPI
  \/ CallTool
  \/ CalledMCP
  \/ CalledDirectAPI
  \/ Disconnect

SpecClient == InitClient /\ [][NextClient]_vars

(***************************************************************************)
(* Properties of the Figma client.                                         *)
(***************************************************************************)
\* C25 - Mock fallback: a connect() that finds neither the MCP server nor the
\* Figma API leaves the client connected with useDirectAPI false, and a
\* getFile call made while that holds returns the mock file data: it does not
\* throw and returns nothing else.
C25_MockFallback ==
  /\ (client.did = "connect" /\ client.outcome = "mock") =>
       client.connected /\ ~client.useDirectAPI
  /\ (/\ client.did = "call" /\ client.tool = "figma_get_file"
      /\ client.invokedIn = "mock" /\ client.mode = "mock"
      /\ client.outcome # "") =>
       client.outcome = "mock"

(***************************************************************************)
(* Properties of the server across loads.                                  *)
(***************************************************************************)
\* currentUrl, fileKey, nodeId and figmaData describe one design: none at
\* all, or the design of the file that the URL names.
OneDesign ==
  IF figmaData.present
  THEN /\ figmaData = Loaded(getFile(fileKey))
       /\ parseFigmaUrl(currentUrl).ok
       /\ parseFigmaUrl(currentUrl).fileKey = fileKey
       /\ parseFigmaUrl(currentUrl).nodeId = nodeId
  ELSE currentUrl = "" /\ fileKey = "" /\ nodeId = ""

\* C26 - Failed load: once POST /api/compile or GET /load has failed and no
\* other request is in flight, currentUrl, fileKey, nodeId and figmaData are
\* those of the design served before the request: the four describe one and
\* the same design.
C26_FailedLoad ==
  (result.op \in {"compile", "load"} /\ result.status = 500 /\ reqs = {}) =>
    OneDesign

\* The file the served design was fetched from.
ServedKey == IF figmaData.document = FileA THEN "KA" ELSE "KB"

\* Every entry of the cache is for a node of the served design and holds what
\* the API answers for that design.
OfServedDesign(cache) ==
  \A id \in DOMAIN cache :
    /\ cache[id] = assetOf(ServedKey)
    /\ \E node \in Nodes(figmaData.document) : node.id = id

\* C27 - Asset caches of the current design: when a load or refresh has
\* completed and no other request is in flight, svgContent, imageUrls,
\* videoUrls and gifUrls hold entries of the served design only.
C27_CachesOfCurrentDesign ==
  (result.op \in {"compile", "load", "refresh", "api-refresh"}
     /\ result.status = 200 /\ reqs = {}) =>
    /\ OfServedDesign(svgContent)
    /\ OfServedDesign(imageUrls)
    /\ OfServedDesign(videoUrls)
    /\ OfServedDesign(gifUrls)

\* C28 - Token isolation between requests: every request that fetchImageUrls
\* or fetchCodeConnectMappings has sent to the Figma API while a POST
\* /api/compile or POST /api/refresh is served carries the token of that
\* request's body, also when another request with another token is in flight.
C28_TokenIsolation ==
  \A r \in reqs :
    (r.kind \in {"compile", "api-refresh"}
       /\ r.pc \in {"svg", "assets", "png", "codeConnect"}) =>
      r.used = r.token

\* A container laid out with SPACE_BETWEEN of which exactly one child is
\* not hidden.
OneEmittedChild(n) ==
  /\ n.type \in {"FRAME", "INSTANCE", "COMPONENT"}
  /\ n.layoutMode # ""
  /\ n.primaryAxisAlignItems = "SPACE_BETWEEN"
  /\ Cardinality({i \in 1..Len(n.children) : n.children[i].visible}) = 1

\* C29 - Single-child tie-break counts emitted children: an Auto-Layout
\* container with SPACE_BETWEEN whose children include exactly one visible
\* child, the others being hidden and pruned, gets 'justify-content: center'.
C29_EmittedChildren ==
  result.op \in {"compiler", "react-preview", "export-html"} =>
    \A el \in Elements(result.html) :
      OneEmittedChild(NodeOf(el.id)) =>
        Contains(el.style, D("justify-content", "center", 0))

\* C29 as amended - the tie-break counts every child of the node, the hidden
\* ones included: such a container gets 'justify-content: center' when the
\* visible child is its only child and 'space-between' when it has hidden
\* siblings.
C29_AllChildren ==
  result.op \in {"compiler", "react-preview", "export-html"} =>
    \A el \in Elements(result.html) :
      OneEmittedChild(NodeOf(el.id)) =>
        Contains(el.style,
                 D("justify-content",
                   IF Len(NodeOf(el.id).children) = 1 THEN "center"
                   ELSE "space-between", 0))

C29_Witness ==
  /\ result.op = "compiler"
  /\ OneEmittedChild(figmaData.document)
  /\ Len(figmaData.document.children) = 2
  /\ Cardinality(Elements(result.html)) = 2
  /\ Contains(result.html.style, D("justify-content", "space-between", 0))

\* C30 - Fallback latch of the client: the client is connected exactly when
\* a connect() has ended since the last disconnect(), and a callTool made
\* while it is not fails with 'Not connected' and sends no request; a call
\* falls back to the direct API only for figma_get_file and sets
\* useDirectAPI, which then stays true until a connect() or a disconnect();
\* a call of any other tool, failing or not, leaves connected and
\* useDirectAPI as they were and its error goes to the caller.
C30_FallbackLatch ==
  /\ [](client.connected <=> client.mode # "")
  /\ [][/\ (client'.did = "call" /\ client.call = NoCall
              /\ ~client.connected) =>
             /\ client'.outcome = "not-connected"
             /\ ~client'.requested
             /\ client'.call = NoCall
        /\ (client'.call.pc = "fallback" /\ client.call.pc # "fallback") =>
             /\ client'.call.tool = "figma_get_file"
             /\ client'.useDirectAPI
        /\ (client.useDirectAPI /\ ~client'.useDirectAPI) =>
             client'.did \in {"connect", "disconnect"}
        /\ (client'.did = "call" /\ client'.tool # "figma_get_file") =>
             /\ client'.connected = client.connected
             /\ client'.useDirectAPI = client.useDirectAPI
             /\ client'.call.pc # "fallback"
             /\ (client.call.pc = "mcp" /\ client'.outcome # "mcp") =>
                  client'.outcome = "threw"]_vars

C30_Witness ==
  /\ client.did = "call"
  /\ client.tool = "figma_get_file"
  /\ client.invokedIn = "mcp"
  /\ client.mode = "mcp"
  /\ client.outcome = "direct"
  /\ client.useDirectAPI

====
